---- MODULE Spec2Model ----
(***************************************************************************)
(* Model of the backup engine of cat-ate-my-source-code:                   *)
(*   core/fileSystem.ts  (FileSystem: copyDirectory, shouldExclude, ...)   *)
(*   core/backupPlan.ts  (BackupPlan: listBackups, applyRetention,         *)
(*                        createBackup, restoreBackup)                     *)
(*   commands/backup.ts  (backupCommand)                                   *)
(*   commands/restore.ts (restoreCommand)                                  *)
(*   config/config.ts    (ConfigLoader: validateConfig, getBackupTarget)   *)
(* Strings are sequences of one-character strings, paths are sequences of  *)
(* names, and the filesystem is a function from absolute paths to nodes.   *)
(***************************************************************************)
EXTENDS Integers, Sequences, FiniteSets, TLC

VARIABLES fs, now, config, last

vars == <<fs, now, config, last>>

(***************************************************************************)
(* Strings                                                                 *)
(***************************************************************************)

\* UTF-16 code units of the characters the model uses (String comparison
\* with <, and the "lexicographic" order of the specification).
CodeUnit ==
  ("*" :> 42) @@ ("-" :> 45) @@ ("." :> 46) @@ ("/" :> 47) @@
  ("0" :> 48) @@ ("1" :> 49) @@ ("2" :> 50) @@ ("3" :> 51) @@ ("4" :> 52) @@
  ("5" :> 53) @@ ("6" :> 54) @@ ("7" :> 55) @@ ("8" :> 56) @@ ("9" :> 57) @@
  (":" :> 58) @@ ("T" :> 84) @@ ("Z" :> 90) @@ ("\\" :> 92) @@
  ("a" :> 97) @@ ("b" :> 98) @@ ("d" :> 100) @@ ("f" :> 102) @@
  ("g" :> 103) @@ ("l" :> 108) @@ ("m" :> 109) @@ ("n" :> 110) @@
  ("o" :> 111) @@ ("p" :> 112) @@ ("q" :> 113) @@ ("r" :> 114) @@
  ("s" :> 115) @@ ("x" :> 120)

\* Primary collation weights of the same characters in the order
\* String.prototype.localeCompare uses (punctuation, then digits, then
\* letters in alphabetical order whatever their case).  No letter of the
\* model occurs in both cases, so the case level never decides.
CollationWeight ==
  ("-" :> 1) @@ ("/" :> 2) @@ (":" :> 3) @@ ("." :> 4) @@ ("*" :> 5) @@
  ("\\" :> 6) @@
  ("0" :> 10) @@ ("1" :> 11) @@ ("2" :> 12) @@ ("3" :> 13) @@ ("4" :> 14) @@
  ("5" :> 15) @@ ("6" :> 16) @@ ("7" :> 17) @@ ("8" :> 18) @@ ("9" :> 19) @@
  ("a" :> 20) @@ ("b" :> 21) @@ ("d" :> 23) @@ ("f" :> 25) @@
  ("g" :> 26) @@ ("l" :> 31) @@ ("m" :> 32) @@ ("n" :> 33) @@
  ("o" :> 34) @@ ("p" :> 35) @@ ("q" :> 36) @@ ("r" :> 37) @@
  ("s" :> 38) @@ ("T" :> 39) @@ ("x" :> 43) @@ ("Z" :> 45)

\* The element of a one-element set.  { e(v) : v \in {x} } evaluates x once
\* and names its value v, as a const declaration does.
The(S) == CHOOSE x \in S : TRUE

RECURSIVE CompareBy(_, _, _)
\* -1, 0 or 1: the order of two strings by the weights w of their characters,
\* a proper prefix coming first.
CompareBy(w, a, b) ==
  IF a = <<>> /\ b = <<>> THEN 0
  ELSE IF a = <<>> THEN -1
  ELSE IF b = <<>> THEN 1
  ELSE IF w[Head(a)] < w[Head(b)] THEN -1
  ELSE IF w[Head(a)] > w[Head(b)] THEN 1
  ELSE CompareBy(w, Tail(a), Tail(b))

\* a.localeCompare(b)
LocaleCompare(a, b) == CompareBy(CollationWeight, a, b)

\* s.startsWith(t) at position i (1-based)
MatchesAt(s, t, i) ==
  /\ i + Len(t) - 1 <= Len(s)
  /\ \A k \in 1..Len(t) : s[i + k - 1] = t[k]

\* s.includes(t)
Includes(s, t) == \E i \in 1..(Len(s) + 1) : MatchesAt(s, t, i)

RECURSIVE ReplaceFrom(_, _, _, _)
\* s.replace(/from/g, to) for a literal, non-empty from: leftmost matches,
\* not overlapping, the replacement text not scanned again.
ReplaceFrom(s, from, to, i) ==
  IF i > Len(s) THEN <<>>
  ELSE IF MatchesAt(s, from, i)
    THEN to \o ReplaceFrom(s, from, to, i + Len(from))
    ELSE <<s[i]>> \o ReplaceFrom(s, from, to, i + 1)

ReplaceAll(s, from, to) == ReplaceFrom(s, from, to, 1)

RECURSIVE JoinWith(_, _)
\* parts.join(sep)
JoinWith(parts, sep) ==
  IF parts = <<>> THEN <<>>
  ELSE IF Len(parts) = 1 THEN parts[1]
  ELSE parts[1] \o sep \o JoinWith(Tail(parts), sep)

Slash == <<"/">>
Backslash == <<"\\">>

(***************************************************************************)
(* FileSystem.matchesPattern / shouldExclude                               *)
(***************************************************************************)

DoubleStarMark ==
  <<"{", "{", "D", "O", "U", "B", "L", "E", "_", "S", "T", "A", "R", "}", "}">>

\* The text of the regular expression built from a glob pattern: the four
\* replace calls of matchesPattern, in the order the code applies them.
GlobToRegexText(pattern) ==
  ReplaceAll(
    ReplaceAll(
      ReplaceAll(
        ReplaceAll(pattern, <<"*", "*">>, DoubleStarMark),
        <<"*">>, <<"[", "^", "/", "]", "*">>),
      DoubleStarMark, <<".", "*">>),
    <<".">>, <<"\\", ".">>)

RECURSIVE ParseRegex(_, _)
\* The atoms of a regular expression text, from position i.  The texts that
\* GlobToRegexText yields over the model's alphabet hold the class [^/], the
\* escaped dot \. and literal characters, each optionally followed by *.
ParseRegex(text, i) ==
  IF i > Len(text) THEN <<>>
  ELSE
    LET isClass == MatchesAt(text, <<"[", "^", "/", "]">>, i)
        isEsc == text[i] = "\\" /\ i < Len(text)
        width == IF isClass THEN 4 ELSE IF isEsc THEN 2 ELSE 1
        star == i + width <= Len(text) /\ text[i + width] = "*"
        atom == [class |-> isClass,
                 ch |-> IF isClass THEN "/" ELSE IF isEsc THEN text[i + 1] ELSE text[i],
                 star |-> star]
    IN <<atom>> \o ParseRegex(text, i + width + (IF star THEN 1 ELSE 0))

AtomAccepts(atom, c) == IF atom.class THEN c # atom.ch ELSE c = atom.ch

RECURSIVE RegexMatch(_, _, _, _)
\* Whether atoms[i..] match s[j..] up to the end of s (the regex is anchored
\* with ^ and $).
RegexMatch(atoms, i, s, j) ==
  IF i > Len(atoms) THEN j > Len(s)
  ELSE IF atoms[i].star
    THEN \/ RegexMatch(atoms, i + 1, s, j)
         \/ /\ j <= Len(s)
            /\ AtomAccepts(atoms[i], s[j])
            /\ RegexMatch(atoms, i, s, j + 1)
    ELSE /\ j <= Len(s)
         /\ AtomAccepts(atoms[i], s[j])
         /\ RegexMatch(atoms, i + 1, s, j + 1)

\* new RegExp(`^${regexPattern}$`).test(path)
RegexTest(pattern, path) ==
  RegexMatch(ParseRegex(GlobToRegexText(pattern), 1), 1, path, 1)

\* A variant without the substring test.
matchesPattern_GlobOnly(path, pattern) == RegexTest(pattern, path)

\* FileSystem.matchesPattern(path, pattern)
matchesPattern(path, pattern) == RegexTest(pattern, path) \/ Includes(path, pattern)

\* FileSystem.shouldExclude(relativePath, excludePatterns)
shouldExclude(relativePath, excludePatterns) ==
  LET normalizedPath == ReplaceAll(relativePath, Backslash, Slash)
  IN \E k \in 1..Len(excludePatterns) :
       matchesPattern(normalizedPath, ReplaceAll(excludePatterns[k], Backslash, Slash))

(***************************************************************************)
(* BackupPlan.generateBackupTimestamp                                      *)
(***************************************************************************)

\* An instant is [sec |-> seconds since the epoch, ms |-> 0..999]: the value
\* of new Date(), split into whole seconds and milliseconds.
Digits == <<"0", "1", "2", "3", "4", "5", "6", "7", "8", "9">>

RECURSIVE Pad(_, _)
\* The decimal digits of n, zero-padded to width w (the last w digits).
Pad(n, w) == IF w = 0 THEN <<>> ELSE Pad(n \div 10, w - 1) \o <<Digits[(n % 10) + 1]>>

\* The proleptic Gregorian date of a day number counted from 1970-01-01.
CivilFromDays(days) ==
  LET z == days + 719468
      era == z \div 146097
      doe == z - era * 146097
      yoe == (doe - doe \div 1460 + doe \div 36524 - doe \div 146096) \div 365
      doy == doe - (365 * yoe + yoe \div 4 - yoe \div 100)
      mp == (5 * doy + 2) \div 153
      d == doy - (153 * mp + 2) \div 5 + 1
      m == IF mp < 10 THEN mp + 3 ELSE mp - 9
      y == yoe + era * 400 + (IF m <= 2 THEN 1 ELSE 0)
  IN [year |-> y, month |-> m, day |-> d]

\* Date.prototype.toISOString(): YYYY-MM-DDTHH:mm:ss.sssZ (years 0..9999)
ToISOString(t) ==
  LET date == CivilFromDays(t.sec \div 86400)
      rem == t.sec % 86400
  IN Pad(date.year, 4) \o <<"-">> \o Pad(date.month, 2) \o <<"-">> \o Pad(date.day, 2)
     \o <<"T">> \o Pad(rem \div 3600, 2) \o <<":">> \o Pad((rem % 3600) \div 60, 2)
     \o <<":">> \o Pad(rem % 60, 2) \o <<".">> \o Pad(t.ms, 3) \o <<"Z">>

\* s.split(sep)[0] for a one-character sep
SplitFirst(s, sep) ==
  IF \E i \in 1..Len(s) : s[i] = sep
    THEN SubSeq(s, 1, (CHOOSE i \in 1..Len(s) :
                         s[i] = sep /\ \A j \in 1..(i - 1) : s[j] # sep) - 1)
    ELSE s

\* A variant that keeps the fraction of the second.
generateBackupTimestamp_KeepsMillis(t) ==
  ReplaceAll(ToISOString(t), <<":">>, <<"-">>)

\* BackupPlan.generateBackupTimestamp() at the instant t
generateBackupTimestamp(t) ==
  ReplaceAll(SplitFirst(ToISOString(t), "."), <<":">>, <<"-">>) \o <<"Z">>

(***************************************************************************)
(* The filesystem (fs/promises)                                            *)
(***************************************************************************)

\* A filesystem is a function from absolute paths (sequences of names, the
\* root <<>> being implicit) to nodes [kind, data]: kind "dir", "file" or
\* "other" (a symbolic link or special file, for which neither
\* Dirent.isDirectory() nor Dirent.isFile() holds); data is a file's bytes.
DirNode == [kind |-> "dir", data |-> <<>>]
OtherNode == [kind |-> "other", data |-> <<>>]
FileNode(bytes) == [kind |-> "file", data |-> bytes]

IsPrefix(p, q) == Len(p) <= Len(q) /\ SubSeq(q, 1, Len(p)) = p

Exists(f, p) == p = <<>> \/ p \in DOMAIN f

KindOf(f, p) == IF p = <<>> THEN "dir" ELSE f[p].kind

Restrict(f, S) == [p \in S |-> f[p]]

\* fs.mkdir(p, { recursive: true })
Mkdir(f, p) ==
  LET prefixes == {SubSeq(p, 1, k) : k \in 1..Len(p)}
  IN IF \E q \in prefixes : Exists(f, q) /\ KindOf(f, q) # "dir"
       THEN [fs |-> f,
             err |-> IF Exists(f, p) /\ KindOf(f, p) # "dir" /\
                        \A q \in prefixes \ {p} : ~Exists(f, q) \/ KindOf(f, q) = "dir"
                       THEN "EEXIST" ELSE "ENOTDIR"]
       ELSE [fs |-> [q \in DOMAIN f \cup prefixes |->
                       IF q \in DOMAIN f THEN f[q] ELSE DirNode],
             err |-> ""]

\* fs.readdir(p, { withFileTypes: true }): the names of the entries of p.
\* The order readdir yields is the platform's; the model lists names in
\* code-unit order.
RECURSIVE SortedNames(_)
SortedNames(S) ==
  IF S = {} THEN <<>>
  ELSE LET least == CHOOSE x \in S : \A y \in S : CompareBy(CodeUnit, x, y) <= 0
       IN <<least>> \o SortedNames(S \ {least})

Readdir(f, p) ==
  IF \E k \in 1..Len(p) : Exists(f, SubSeq(p, 1, k)) /\ KindOf(f, SubSeq(p, 1, k)) # "dir"
    THEN [entries |-> <<>>, err |-> "ENOTDIR"]
  ELSE IF ~Exists(f, p) THEN [entries |-> <<>>, err |-> "ENOENT"]
  ELSE [entries |-> SortedNames({q[Len(q)] : q \in
                       {r \in DOMAIN f : Len(r) = Len(p) + 1 /\ IsPrefix(p, r)}}),
        err |-> ""]

\* A variant that leaves a file that is already at dst as it is.
CopyFile_KeepsExisting(f, src, dst) ==
  IF ~Exists(f, src) THEN [fs |-> f, err |-> "ENOENT"]
  ELSE IF ~Exists(f, SubSeq(dst, 1, Len(dst) - 1)) THEN [fs |-> f, err |-> "ENOENT"]
  ELSE IF KindOf(f, SubSeq(dst, 1, Len(dst) - 1)) # "dir" THEN [fs |-> f, err |-> "ENOTDIR"]
  ELSE IF Exists(f, dst) /\ KindOf(f, dst) # "file" THEN [fs |-> f, err |-> "EISDIR"]
  ELSE [fs |-> [q \in DOMAIN f \cup {dst} |-> IF q \in DOMAIN f THEN f[q] ELSE f[src]],
        err |-> ""]

\* fs.copyFile(src, dst): dst is created or overwritten
CopyFile(f, src, dst) ==
  IF ~Exists(f, src) THEN [fs |-> f, err |-> "ENOENT"]
  ELSE IF ~Exists(f, SubSeq(dst, 1, Len(dst) - 1)) THEN [fs |-> f, err |-> "ENOENT"]
  ELSE IF KindOf(f, SubSeq(dst, 1, Len(dst) - 1)) # "dir" THEN [fs |-> f, err |-> "ENOTDIR"]
  ELSE IF Exists(f, dst) /\ KindOf(f, dst) # "file" THEN [fs |-> f, err |-> "EISDIR"]
  ELSE [fs |-> [q \in DOMAIN f \cup {dst} |-> IF q = dst THEN f[src] ELSE f[q]],
        err |-> ""]

\* fs.rm(p, { recursive: true, force: true })
Rm(f, p) == Restrict(f, {q \in DOMAIN f : ~IsPrefix(p, q)})

(***************************************************************************)
(* FileSystem.copyDirectory                                                *)
(***************************************************************************)

NoStats == [filesCopied |-> 0, directoriesCreated |-> 0, bytesCopied |-> 0,
            skipped |-> <<>>]

\* A variant that yields the absolute path of the entry.
RelativePath_Absolute(rootSource, sourcePath) ==
  Slash \o JoinWith(sourcePath, Slash)

\* A variant that yields the entry's name alone.
RelativePath_EntryName(rootSource, sourcePath) ==
  sourcePath[Len(sourcePath)]

\* path.relative(rootSource, sourcePath), sourcePath being below rootSource
RelativePath(rootSource, sourcePath) ==
  JoinWith(SubSeq(sourcePath, Len(rootSource) + 1, Len(sourcePath)), Slash)

RECURSIVE copyDirectoryRecursive(_, _, _, _, _, _)
RECURSIVE CopyEntries(_, _, _, _, _, _, _)

\* A variant that records an excluded directory and walks into it all the same.
CopyEntry_Descends(c, name, source, destination, rootSource, excludePatterns, dryRun) ==
  LET sourcePath == Append(source, name)
      relativePath == RelativePath(rootSource, sourcePath)
      destinationPath == Append(destination, name)
      kind == KindOf(c.fs, sourcePath)
      excluded == shouldExclude(relativePath, excludePatterns)
  IN IF excluded /\ kind # "dir"
       THEN [c EXCEPT !.stats.skipped = Append(@, relativePath)]
     ELSE IF kind = "dir"
       THEN The({ IF c1.err # "" THEN c1
                  ELSE copyDirectoryRecursive(c1, sourcePath, destinationPath,
                                              rootSource, excludePatterns, dryRun)
                  : c1 \in { The({ IF dryRun \/ excluded THEN c0
                                   ELSE The({ IF made.err # ""
                                                THEN [c0 EXCEPT !.err = made.err]
                                              ELSE [c0 EXCEPT !.fs = made.fs,
                                                              !.stats.directoriesCreated = @ + 1]
                                              : made \in {Mkdir(c0.fs, destinationPath)} })
                                   : c0 \in { IF excluded
                                                THEN [c EXCEPT !.stats.skipped =
                                                                 Append(@, relativePath)]
                                                ELSE c } }) } })
     ELSE IF kind = "file"
       THEN IF dryRun
              THEN [c EXCEPT !.stats.filesCopied = @ + 1]
              ELSE The({ IF copied.err # "" THEN [c EXCEPT !.err = copied.err]
                         ELSE [c EXCEPT !.fs = copied.fs,
                                        !.stats.filesCopied = @ + 1,
                                        !.stats.bytesCopied =
                                           @ + Len(c.fs[sourcePath].data)]
                         : copied \in {CopyFile(c.fs, sourcePath, destinationPath)} })
     ELSE c

\* A variant that sets bytesCopied to the size of the file just copied.
CopyEntry_LastFileSize(c, name, source, destination, rootSource, excludePatterns, dryRun) ==
  LET sourcePath == Append(source, name)
      relativePath == RelativePath(rootSource, sourcePath)
      destinationPath == Append(destination, name)
      kind == KindOf(c.fs, sourcePath)
  IN IF shouldExclude(relativePath, excludePatterns)
       THEN [c EXCEPT !.stats.skipped = Append(@, relativePath)]
     ELSE IF kind = "dir"
       THEN The({ IF c1.err # "" THEN c1
                  ELSE copyDirectoryRecursive(c1, sourcePath, destinationPath,
                                              rootSource, excludePatterns, dryRun)
                  : c1 \in { IF dryRun THEN c
                             ELSE The({ IF made.err # "" THEN [c EXCEPT !.err = made.err]
                                        ELSE [c EXCEPT !.fs = made.fs,
                                                       !.stats.directoriesCreated = @ + 1]
                                        : made \in {Mkdir(c.fs, destinationPath)} }) } })
     ELSE IF kind = "file"
       THEN IF dryRun
              THEN [c EXCEPT !.stats.filesCopied = @ + 1]
              ELSE The({ IF copied.err # "" THEN [c EXCEPT !.err = copied.err]
                         ELSE [c EXCEPT !.fs = copied.fs,
                                        !.stats.filesCopied = @ + 1,
                                        !.stats.bytesCopied = Len(c.fs[sourcePath].data)]
                         : copied \in {CopyFile(c.fs, sourcePath, destinationPath)} })
     ELSE c

\* The step of the for loop of copyDirectoryRecursive for entry `name`.
\* c is [fs, stats, err]: the filesystem and statistics so far, and the
\* code of the error thrown ("" while none is).
CopyEntry(c, name, source, destination, rootSource, excludePatterns, dryRun) ==
  LET sourcePath == Append(source, name)
      relativePath == RelativePath(rootSource, sourcePath)
      destinationPath == Append(destination, name)
      kind == KindOf(c.fs, sourcePath)
  IN IF shouldExclude(relativePath, excludePatterns)
       THEN [c EXCEPT !.stats.skipped = Append(@, relativePath)]
     ELSE IF kind = "dir"
       THEN The({ IF c1.err # "" THEN c1
                  ELSE copyDirectoryRecursive(c1, sourcePath, destinationPath,
                                              rootSource, excludePatterns, dryRun)
                  : c1 \in { IF dryRun THEN c
                             ELSE The({ IF made.err # "" THEN [c EXCEPT !.err = made.err]
                                        ELSE [c EXCEPT !.fs = made.fs,
                                                       !.stats.directoriesCreated = @ + 1]
                                        : made \in {Mkdir(c.fs, destinationPath)} }) } })
     ELSE IF kind = "file"
       THEN IF dryRun
              THEN [c EXCEPT !.stats.filesCopied = @ + 1]
              ELSE The({ IF copied.err # "" THEN [c EXCEPT !.err = copied.err]
                         ELSE [c EXCEPT !.fs = copied.fs,
                                        !.stats.filesCopied = @ + 1,
                                        !.stats.bytesCopied =
                                           @ + Len(c.fs[sourcePath].data)]
                         : copied \in {CopyFile(c.fs, sourcePath, destinationPath)} })
     ELSE c

\* The for loop of copyDirectoryRecursive over the entries still to visit;
\* it ends at the first error thrown.
CopyEntries(c, entries, source, destination, rootSource, excludePatterns, dryRun) ==
  IF entries = <<>> \/ c.err # "" THEN c
  ELSE The({ CopyEntries(c1, Tail(entries), source, destination, rootSource,
                         excludePatterns, dryRun)
             : c1 \in {CopyEntry(c, Head(entries), source, destination, rootSource,
                                 excludePatterns, dryRun)} })

\* FileSystem.copyDirectoryRecursive
copyDirectoryRecursive(c, source, destination, rootSource, excludePatterns, dryRun) ==
  The({ IF read.err # "" THEN [c EXCEPT !.err = read.err]
        ELSE CopyEntries(c, read.entries, source, destination, rootSource,
                         excludePatterns, dryRun)
        : read \in {Readdir(c.fs, source)} })

\* A variant that creates the destination before it looks at dryRun.
copyDirectory_CreatesFirst(f, source, destination, excludePatterns, dryRun) ==
  The({ IF made.err # "" THEN [fs |-> f, stats |-> NoStats, err |-> made.err]
        ELSE copyDirectoryRecursive(
               [fs |-> made.fs,
                stats |-> [NoStats EXCEPT !.directoriesCreated = IF dryRun THEN 0 ELSE 1],
                err |-> ""],
               source, destination, source, excludePatterns, dryRun)
        : made \in {Mkdir(f, destination)} })

\* FileSystem.copyDirectory: [fs, stats, err]
copyDirectory(f, source, destination, excludePatterns, dryRun) ==
  The({ IF c0.err # "" THEN c0
        ELSE copyDirectoryRecursive(c0, source, destination, source,
                                    excludePatterns, dryRun)
        : c0 \in { IF dryRun THEN [fs |-> f, stats |-> NoStats, err |-> ""]
                   ELSE The({ IF made.err # ""
                                THEN [fs |-> f, stats |-> NoStats, err |-> made.err]
                                ELSE [fs |-> made.fs,
                                      stats |-> [NoStats EXCEPT !.directoriesCreated = 1],
                                      err |-> ""]
                              : made \in {Mkdir(f, destination)} }) } })

\* FileSystem.ensureDirectoryExists: [fs, err, ignored], ignored being the
\* error of mkdir that the catch block drops.
ensureDirectoryExists(f, dirPath, dryRun) ==
  IF dryRun THEN [fs |-> f, err |-> "", ignored |-> ""]
  ELSE The({ IF made.err = "EEXIST"
               THEN [fs |-> f, err |-> "", ignored |-> made.err]
               ELSE [fs |-> made.fs, err |-> made.err, ignored |-> ""]
             : made \in {Mkdir(f, dirPath)} })

\* FileSystem.directoryExists
directoryExists(f, dirPath) == Exists(f, dirPath) /\ KindOf(f, dirPath) = "dir"

\* A variant that removes the directory that holds dirPath.
removeDirectory_RemovesParent(f, dirPath, dryRun) ==
  IF dryRun THEN f ELSE Rm(f, SubSeq(dirPath, 1, Len(dirPath) - 1))

\* FileSystem.removeDirectory
removeDirectory(f, dirPath, dryRun) == IF dryRun THEN f ELSE Rm(f, dirPath)

(***************************************************************************)
(* BackupPlan                                                              *)
(***************************************************************************)

\* A configured path is [abs, parts]: whether it is absolute, and its names.
\* An optional configPath argument is [defined, parts].
Cwd == <<<<"w">>>>

NoConfigPath == [defined |-> FALSE, parts |-> <<>>]

\* path.dirname
Dirname(p) == IF p = <<>> THEN <<>> ELSE SubSeq(p, 1, Len(p) - 1)

\* path.isAbsolute(p) ? p : configPath ? path.resolve(path.dirname(configPath), p)
\*                                     : path.resolve(process.cwd(), p)
ResolvePath(p, configPath) ==
  IF p.abs THEN p.parts
  ELSE IF configPath.defined THEN Dirname(configPath.parts) \o p.parts
  ELSE Cwd \o p.parts

\* A variant that resolves a relative target path against the working
\* directory whatever configPath is.
getBackupPath_FromCwd(target, projectName, timestamp, configPath) ==
  IF target.type = "local"
    THEN [abs |-> TRUE,
          parts |-> ResolvePath(target.path, NoConfigPath) \o <<projectName, timestamp>>]
    ELSE [abs |-> target.path.abs,
          parts |-> target.path.parts \o <<projectName, timestamp>>]

\* BackupPlan.getBackupPath
getBackupPath(target, projectName, timestamp, configPath) ==
  IF target.type = "local"
    THEN [abs |-> TRUE,
          parts |-> ResolvePath(target.path, configPath) \o <<projectName, timestamp>>]
    ELSE [abs |-> target.path.abs,
          parts |-> target.path.parts \o <<projectName, timestamp>>]

\* A variant that puts the smaller id first.
compareBackups_OldestFirst(a, b) == LocaleCompare(a.timestamp, b.timestamp)

\* The comparator of the sort of listBackups:
\* (a, b) => b.timestamp.localeCompare(a.timestamp)
compareBackups(a, b) == LocaleCompare(b.timestamp, a.timestamp)

\* One step of a stable sort: x goes before the first element that the
\* comparator puts after it.
InsertBackup(sorted, x) ==
  LET after == {i \in 1..Len(sorted) : compareBackups(sorted[i], x) > 0}
      pos == IF after = {} THEN Len(sorted) + 1
             ELSE CHOOSE i \in after : \A j \in after : i <= j
  IN SubSeq(sorted, 1, pos - 1) \o <<x>> \o SubSeq(sorted, pos, Len(sorted))

RECURSIVE SortBackups(_)
\* backups.sort(compareBackups)
SortBackups(s) ==
  IF s = <<>> THEN <<>>
  ELSE The({ InsertBackup(sorted, s[Len(s)])
             : sorted \in {SortBackups(SubSeq(s, 1, Len(s) - 1))} })

RECURSIVE DirectoryRecords(_, _, _, _)
\* The for loop of listBackups: one record per entry that is a directory.
DirectoryRecords(f, projectBackupDir, projectName, entries) ==
  IF entries = <<>> THEN <<>>
  ELSE LET backupPath == Append(projectBackupDir, Head(entries))
           rest == DirectoryRecords(f, projectBackupDir, projectName, Tail(entries))
       IN IF KindOf(f, backupPath) = "dir"
            THEN <<[timestamp |-> Head(entries), path |-> backupPath,
                    projectName |-> projectName]>> \o rest
            ELSE rest

\* A variant that takes every failure to read the directory for an empty one.
listBackups_SwallowsAll(f, target, projectName, configPath) ==
  IF target.type # "local" THEN [backups |-> <<>>, err |-> ""]
  ELSE
    LET projectBackupDir == ResolvePath(target.path, configPath) \o <<projectName>>
    IN The({ IF read.err # "" THEN [backups |-> <<>>, err |-> ""]
             ELSE [backups |-> The({ SortBackups(records)
                                     : records \in {DirectoryRecords(f, projectBackupDir,
                                                      projectName, read.entries)} }),
                   err |-> ""]
             : read \in {Readdir(f, projectBackupDir)} })

\* BackupPlan.listBackups: [backups, err]
listBackups(f, target, projectName, configPath) ==
  IF target.type # "local" THEN [backups |-> <<>>, err |-> ""]
  ELSE
    LET projectBackupDir == ResolvePath(target.path, configPath) \o <<projectName>>
    IN The({ IF read.err = "ENOENT" THEN [backups |-> <<>>, err |-> ""]
             ELSE IF read.err # ""
               THEN [backups |-> <<>>, err |-> "Failed to list backups"]
             ELSE [backups |-> The({ SortBackups(records)
                                     : records \in {DirectoryRecords(f, projectBackupDir,
                                                      projectName, read.entries)} }),
                   err |-> ""]
             : read \in {Readdir(f, projectBackupDir)} })

\* A variant that starts one element late.
Slice_StartsLate(s, start) ==
  LET from == IF start < 0
                THEN (IF Len(s) + start < 0 THEN 0 ELSE Len(s) + start)
                ELSE (IF start > Len(s) THEN Len(s) ELSE start)
  IN SubSeq(s, from + 2, Len(s))

\* Array.prototype.slice(start)
Slice(s, start) ==
  LET from == IF start < 0
                THEN (IF Len(s) + start < 0 THEN 0 ELSE Len(s) + start)
                ELSE (IF start > Len(s) THEN Len(s) ELSE start)
  IN SubSeq(s, from + 1, Len(s))

RECURSIVE RemoveExcess(_, _, _)
\* The for loop of applyRetention over the excess backups.
RemoveExcess(f, excess, dryRun) ==
  IF excess = <<>> THEN f
  ELSE The({ RemoveExcess(f1, Tail(excess), dryRun)
             : f1 \in { IF dryRun THEN f
                        ELSE removeDirectory(f, Head(excess).path, FALSE) } })

\* A variant that reports the excess backups only when it removes them.
applyRetention_ReportsRemovedOnly(f, target, projectName, maxBackups, configPath, dryRun) ==
  IF target.type # "local" THEN [fs |-> f, toRemove |-> <<>>, err |-> ""]
  ELSE
    The({ IF listed.err # "" THEN [fs |-> f, toRemove |-> <<>>, err |-> listed.err]
          ELSE LET backups == listed.backups
                   excess == IF Len(backups) > maxBackups
                               THEN Slice(backups, maxBackups) ELSE <<>>
               IN [fs |-> RemoveExcess(f, excess, dryRun),
                   toRemove |-> IF dryRun THEN <<>>
                                ELSE [i \in 1..Len(excess) |-> excess[i].path],
                   err |-> ""]
          : listed \in {listBackups(f, target, projectName, configPath)} })

\* BackupPlan.applyRetention: [fs, toRemove, err]
applyRetention(f, target, projectName, maxBackups, configPath, dryRun) ==
  IF target.type # "local" THEN [fs |-> f, toRemove |-> <<>>, err |-> ""]
  ELSE
    The({ IF listed.err # "" THEN [fs |-> f, toRemove |-> <<>>, err |-> listed.err]
          ELSE LET backups == listed.backups
                   excess == IF Len(backups) > maxBackups
                               THEN Slice(backups, maxBackups) ELSE <<>>
               IN [fs |-> RemoveExcess(f, excess, dryRun),
                   toRemove |-> [i \in 1..Len(excess) |-> excess[i].path],
                   err |-> ""]
          : listed \in {listBackups(f, target, projectName, configPath)} })

\* A variant that prunes the project's backups down to one once it has copied.
createBackup_Prunes(f, project, target, timestamp, configPath, dryRun) ==
  IF target.type # "local"
    THEN [fs |-> f, path |-> <<>>, stats |-> NoStats,
          err |-> "Remote backups are not yet implemented", ignored |-> ""]
  ELSE
    LET backupPath == getBackupPath(target, project.name, timestamp, configPath).parts
        projectPath == ResolvePath(project.path, configPath)
    IN The({ IF ensured.err # ""
               THEN [fs |-> ensured.fs, path |-> backupPath, stats |-> NoStats,
                     err |-> "Failed to create directory", ignored |-> ""]
               ELSE The({ [fs |-> applyRetention(copied.fs, target, project.name, 1,
                                                 configPath, dryRun).fs,
                           path |-> backupPath,
                           stats |-> copied.stats, err |-> copied.err,
                           ignored |-> ensured.ignored]
                          : copied \in {copyDirectory(ensured.fs, projectPath, backupPath,
                                                      project.exclude, dryRun)} })
             : ensured \in { IF dryRun THEN [fs |-> f, err |-> "", ignored |-> ""]
                             ELSE ensureDirectoryExists(f, backupPath, FALSE) } })

\* A variant that treats every target as a local one.
createBackup_AnyTarget(f, project, target, timestamp, configPath, dryRun) ==
  LET backupPath == getBackupPath(target, project.name, timestamp, configPath).parts
      projectPath == ResolvePath(project.path, configPath)
  IN The({ IF ensured.err # ""
             THEN [fs |-> ensured.fs, path |-> backupPath, stats |-> NoStats,
                   err |-> "Failed to create directory", ignored |-> ""]
             ELSE The({ [fs |-> copied.fs, path |-> backupPath,
                         stats |-> copied.stats, err |-> copied.err,
                           ignored |-> ensured.ignored]
                        : copied \in {copyDirectory(ensured.fs, projectPath, backupPath,
                                                    project.exclude, dryRun)} })
           : ensured \in { IF dryRun THEN [fs |-> f, err |-> "", ignored |-> ""]
                           ELSE ensureDirectoryExists(f, backupPath, FALSE) } })

\* BackupPlan.createBackup: [fs, path, stats, err, ignored]
createBackup(f, project, target, timestamp, configPath, dryRun) ==
  IF target.type # "local"
    THEN [fs |-> f, path |-> <<>>, stats |-> NoStats,
          err |-> "Remote backups are not yet implemented", ignored |-> ""]
  ELSE
    LET backupPath == getBackupPath(target, project.name, timestamp, configPath).parts
        projectPath == ResolvePath(project.path, configPath)
    IN The({ IF ensured.err # ""
               THEN [fs |-> ensured.fs, path |-> backupPath, stats |-> NoStats,
                     err |-> "Failed to create directory", ignored |-> ""]
               ELSE The({ [fs |-> copied.fs, path |-> backupPath,
                           stats |-> copied.stats, err |-> copied.err,
                           ignored |-> ensured.ignored]
                          : copied \in {copyDirectory(ensured.fs, projectPath, backupPath,
                                                      project.exclude, dryRun)} })
             : ensured \in { IF dryRun THEN [fs |-> f, err |-> "", ignored |-> ""]
                             ELSE ensureDirectoryExists(f, backupPath, FALSE) } })

\* A variant that looks for the destination only when it is about to write.
restoreBackup_ChecksWhenWriting(f, backupPath, destination, dryRun) ==
  IF dryRun THEN [fs |-> f, err |-> "", ignored |-> ""]
  ELSE IF directoryExists(f, destination)
    THEN [fs |-> f, err |-> "Destination directory already exists", ignored |-> ""]
  ELSE
    The({ IF ensured.err # ""
            THEN [fs |-> ensured.fs, err |-> "Failed to create directory", ignored |-> ""]
            ELSE The({ [fs |-> copied.fs, err |-> copied.err,
                           ignored |-> ensured.ignored]
                       : copied \in {copyDirectory(ensured.fs, backupPath, destination,
                                                   <<>>, FALSE)} })
          : ensured \in {ensureDirectoryExists(f, destination, FALSE)} })

\* A variant that restores with an exclusion list of its own.
restoreBackup_Excludes(f, backupPath, destination, dryRun) ==
  IF directoryExists(f, destination)
    THEN [fs |-> f, err |-> "Destination directory already exists", ignored |-> ""]
  ELSE IF dryRun THEN [fs |-> f, err |-> "", ignored |-> ""]
  ELSE
    The({ IF ensured.err # ""
            THEN [fs |-> ensured.fs, err |-> "Failed to create directory", ignored |-> ""]
            ELSE The({ [fs |-> copied.fs, err |-> copied.err,
                           ignored |-> ensured.ignored]
                       : copied \in {copyDirectory(ensured.fs, backupPath, destination,
                                                   << <<"n">> >>, FALSE)} })
          : ensured \in {ensureDirectoryExists(f, destination, FALSE)} })

\* BackupPlan.restoreBackup: [fs, err, ignored]
restoreBackup(f, backupPath, destination, dryRun) ==
  IF directoryExists(f, destination)
    THEN [fs |-> f, err |-> "Destination directory already exists", ignored |-> ""]
  ELSE IF dryRun THEN [fs |-> f, err |-> "", ignored |-> ""]
  ELSE
    The({ IF ensured.err # ""
            THEN [fs |-> ensured.fs, err |-> "Failed to create directory", ignored |-> ""]
            ELSE The({ [fs |-> copied.fs, err |-> copied.err,
                           ignored |-> ensured.ignored]
                       : copied \in {copyDirectory(ensured.fs, backupPath, destination,
                                                   <<>>, FALSE)} })
          : ensured \in {ensureDirectoryExists(f, destination, FALSE)} })

(***************************************************************************)
(* ConfigLoader and backupCommand                                          *)
(***************************************************************************)

\* A configuration is [projects, backupTargets, retention]: projects are
\* [name, path, exclude], targets [name, type, path], and retention is
\* [defined, value] for retention.maxBackupsPerProject.
DefaultConfigName == <<"c">>

DefaultMaxBackups == 10

\* A variant that accepts every value of retention.maxBackupsPerProject.
validateConfig_AnyRetention(f, cfg, configFile) ==
  LET configDir == Dirname(configFile)
      projectPath(project) ==
        IF project.path.abs THEN project.path.parts ELSE configDir \o project.path.parts
  IN IF Len(cfg.projects) = 0 THEN "Config must have at least one project defined"
     ELSE IF Len(cfg.backupTargets) = 0
       THEN "Config must have at least one backup target defined"
     ELSE IF \E i \in 1..Len(cfg.projects) : ~Exists(f, projectPath(cfg.projects[i]))
       THEN "Project path does not exist"
     ELSE IF \E i \in 1..Len(cfg.projects) :
               KindOf(f, projectPath(cfg.projects[i])) # "dir"
       THEN "Project path is not a directory"
     ELSE IF \E i \in 1..Len(cfg.backupTargets) :
               cfg.backupTargets[i].type \notin {"local", "remote"}
       THEN "Unknown backup target type"
     ELSE ""

\* ConfigLoader.validateConfig: the message of the error thrown, or ""
validateConfig(f, cfg, configFile) ==
  LET configDir == Dirname(configFile)
      projectPath(project) ==
        IF project.path.abs THEN project.path.parts ELSE configDir \o project.path.parts
  IN IF Len(cfg.projects) = 0 THEN "Config must have at least one project defined"
     ELSE IF Len(cfg.backupTargets) = 0
       THEN "Config must have at least one backup target defined"
     ELSE IF \E i \in 1..Len(cfg.projects) : ~Exists(f, projectPath(cfg.projects[i]))
       THEN "Project path does not exist"
     ELSE IF \E i \in 1..Len(cfg.projects) :
               KindOf(f, projectPath(cfg.projects[i])) # "dir"
       THEN "Project path is not a directory"
     ELSE IF \E i \in 1..Len(cfg.backupTargets) :
               cfg.backupTargets[i].type \notin {"local", "remote"}
       THEN "Unknown backup target type"
     ELSE IF cfg.retention.defined /\ cfg.retention.value < 1
       THEN "maxBackupsPerProject must be at least 1"
     ELSE ""

\* ConfigLoader.loadConfig: the configuration file is the one named, else
\* the default file of the working directory.
loadConfig(f, cfg, configPath) ==
  validateConfig(f, cfg, IF configPath.defined THEN configPath.parts
                         ELSE Append(Cwd, DefaultConfigName))

\* ConfigLoader.getProjectConfig: [found, project]
getProjectConfig(cfg, projectName) ==
  LET hits == {i \in 1..Len(cfg.projects) : cfg.projects[i].name = projectName}
  IN IF hits = {} THEN [found |-> FALSE, project |-> cfg.projects[1]]
     ELSE [found |-> TRUE,
           project |-> cfg.projects[CHOOSE i \in hits : \A j \in hits : i <= j]]

\* ConfigLoader.getBackupTarget: [found, target]
getBackupTarget(cfg, targetName) ==
  LET hits == {i \in 1..Len(cfg.backupTargets) : cfg.backupTargets[i].name = targetName.name}
  IN IF ~targetName.defined THEN [found |-> TRUE, target |-> cfg.backupTargets[1]]
     ELSE IF hits = {} THEN [found |-> FALSE, target |-> cfg.backupTargets[1]]
     ELSE [found |-> TRUE,
           target |-> cfg.backupTargets[CHOOSE i \in hits : \A j \in hits : i <= j]]

\* The targetName of a call that passes none.
NoTargetName == [defined |-> FALSE, name |-> <<>>]

RECURSIVE BackupProjects_SkipsFailed(_, _, _, _, _, _, _, _)
\* A variant that goes on with the next project when one has failed.
BackupProjects_SkipsFailed(f, projects, target, maxBackups, configPath, dryRun, t, runs) ==
  IF projects = <<>> THEN [fs |-> f, err |-> "", runs |-> runs]
  ELSE
    LET project == Head(projects)
        timestamp == generateBackupTimestamp(t)
        rest(g, err) ==
          The({ [fs |-> more.fs, err |-> err, runs |-> more.runs]
                : more \in {BackupProjects_SkipsFailed(g, Tail(projects), target,
                                                       maxBackups, configPath, dryRun,
                                                       t, runs)} })
    IN The({
         IF created.err # "" THEN rest(created.fs, created.err)
         ELSE The({
           IF pruned.err # "" THEN rest(pruned.fs, pruned.err)
           ELSE The({ BackupProjects_SkipsFailed(pruned.fs, Tail(projects), target,
                                                 maxBackups, configPath, dryRun, t, runs1)
                      : runs1 \in {Append(runs,
                                     [project |-> project.name, timestamp |-> timestamp,
                                      path |-> created.path,
                                      maxBackups |-> maxBackups,
                                      removed |-> pruned.toRemove])} })
           : pruned \in {applyRetention(created.fs, target, project.name, maxBackups,
                                        configPath, dryRun)} })
         : created \in {createBackup(f, project, target, timestamp, configPath, dryRun)} })

RECURSIVE BackupProjects(_, _, _, _, _, _, _, _)
\* The for loop of backupCommand over the projects still to back up, at the
\* instant t: [fs, err, runs], runs holding for each project handled its
\* name, the id generated, the backup path, the maxBackups passed to
\* applyRetention and the paths it returned.
BackupProjects(f, projects, target, maxBackups, configPath, dryRun, t, runs) ==
  IF projects = <<>> THEN [fs |-> f, err |-> "", runs |-> runs]
  ELSE
    LET project == Head(projects)
        timestamp == generateBackupTimestamp(t)
    IN The({
         IF created.err # "" THEN [fs |-> created.fs, err |-> created.err, runs |-> runs]
         ELSE The({
           IF pruned.err # "" THEN [fs |-> pruned.fs, err |-> pruned.err, runs |-> runs]
           ELSE The({ BackupProjects(pruned.fs, Tail(projects), target, maxBackups,
                                     configPath, dryRun, t, runs1)
                      : runs1 \in {Append(runs,
                                     [project |-> project.name, timestamp |-> timestamp,
                                      path |-> created.path,
                                      maxBackups |-> maxBackups,
                                      removed |-> pruned.toRemove])} })
           : pruned \in {applyRetention(created.fs, target, project.name, maxBackups,
                                        configPath, dryRun)} })
         : created \in {createBackup(f, project, target, timestamp, configPath, dryRun)} })

\* A variant that keeps the default whatever the configuration sets.
maxBackupsOf_DefaultOnly(cfg) == DefaultMaxBackups

\* config.retention?.maxBackupsPerProject || 10
maxBackupsOf(cfg) ==
  IF cfg.retention.defined /\ cfg.retention.value # 0
    THEN cfg.retention.value ELSE DefaultMaxBackups

\* backupCommand(options) at the instant t: [fs, exitCode, err, runs].
\* options is [project: [defined, name], all, target: [defined, name],
\* dryRun, configPath: [defined, parts]].
backupCommand(f, t, cfg, options) ==
  LET loaded == loadConfig(f, cfg, options.configPath)
      configPath == [defined |-> TRUE,
                     parts |-> IF options.configPath.defined
                                 THEN options.configPath.parts ELSE Cwd]
      wanted == getProjectConfig(cfg, options.project.name)
      projectsToBackup == IF options.all THEN cfg.projects
                          ELSE IF options.project.defined THEN <<wanted.project>>
                          ELSE <<>>
      target == getBackupTarget(cfg, options.target)
      maxBackups == maxBackupsOf(cfg)
      failed(msg) == [fs |-> f, exitCode |-> 1, err |-> msg, runs |-> <<>>]
  IN IF loaded # "" THEN failed(loaded)
     ELSE IF ~options.all /\ options.project.defined /\ ~wanted.found
       THEN failed("Project not found in config")
     ELSE IF Len(projectsToBackup) = 0
       THEN failed("Either --project <name> or --all must be specified")
     ELSE IF ~target.found THEN failed("Backup target not found in config")
     ELSE The({ [fs |-> done.fs, exitCode |-> IF done.err # "" THEN 1 ELSE 0,
                 err |-> done.err, runs |-> done.runs]
                : done \in {BackupProjects(f, projectsToBackup, target.target,
                                           maxBackups, configPath, options.dryRun,
                                           t, <<>>)} })

\* restoreCommand(options): [fs, exitCode, err, path], path being the backup
\* restored from.  options is [project, backup, dest, dryRun,
\* configPath: [defined, parts]].
restoreCommand(f, cfg, options) ==
  LET loaded == loadConfig(f, cfg, options.configPath)
      configPath == [defined |-> TRUE,
                     parts |-> IF options.configPath.defined
                                 THEN options.configPath.parts ELSE Cwd]
      wanted == getProjectConfig(cfg, options.project)
      target == getBackupTarget(cfg, NoTargetName)
      failed(msg) == [fs |-> f, exitCode |-> 1, err |-> msg, path |-> <<>>]
  IN IF loaded # "" THEN failed(loaded)
     ELSE IF ~wanted.found THEN failed("Project not found in config")
     ELSE The({
       IF listed.err # "" THEN failed(listed.err)
       ELSE LET hits == {i \in 1..Len(listed.backups) :
                           listed.backups[i].timestamp = options.backup}
            IN IF hits = {} THEN failed("Backup not found for project")
               ELSE LET backupInfo ==
                          listed.backups[CHOOSE i \in hits : \A j \in hits : i <= j]
                    IN The({ [fs |-> restored.fs,
                              exitCode |-> IF restored.err # "" THEN 1 ELSE 0,
                              err |-> restored.err, path |-> backupInfo.path]
                             : restored \in {restoreBackup(f, backupInfo.path,
                                                           options.dest,
                                                           options.dryRun)} })
       : listed \in {listBackups(f, target.target, wanted.project.name, configPath)} })

(***************************************************************************)
(* Bounds and inputs                                                       *)
(***************************************************************************)

\* Clock ticks of half a second that a behaviour may take.
MaxTicks == 3
\* The largest maxBackups passed to applyRetention directly, and the largest
\* retention.maxBackupsPerProject a configuration sets.
MaxKeep == 2
\* The largest number of backups that exist before the first step.
MaxPreexisting == 10
\* The longest file, in bytes.
MaxFileLen == 1
\* The deepest entry of a generated source tree, and the most entries.
MaxDepth == 3
MaxEntries == 3

Bytes == {0}

FileContents == UNION {[1..k -> Bytes] : k \in 0..MaxFileLen}

\* 2025-01-15T09:59:59.000Z
StartInstant == [sec |-> 1736935199, ms |-> 0]

Elapsed(t) == (t.sec - StartInstant.sec) * 2 + t.ms \div 500

ProjectName == <<"p">>
ProjectRoot == <<<<"p">>>>
TargetBase == <<<<"b">>>>
DestNew == <<<<"r">>>>
DestExisting == <<<<"x">>>>

EmptyTree == [p \in {} |-> DirNode]

\* The tree at `root` of filesystem f, as a function of relative paths.
TreeAt(f, root) ==
  [p \in {SubSeq(q, Len(root) + 1, Len(q)) :
            q \in {r \in DOMAIN f : IsPrefix(root, r) /\ r # root}} |-> f[root \o p]]

\* The filesystem that holds directory `root` (and its ancestors) with the
\* tree below it.
Mount(tree, root) ==
  [q \in {SubSeq(root, 1, k) : k \in 1..Len(root)} \cup {root \o p : p \in DOMAIN tree} |->
     IF IsPrefix(q, root) THEN DirNode ELSE tree[SubSeq(q, Len(root) + 1, Len(q))]]

\* The project directory of the test suite (file1.txt, file2.txt,
\* subdir/file3.txt, node_modules/package.json) with a symbolic link added.
FixtureTree ==
  (<<<<"a">>>> :> FileNode(<<0>>)) @@ (<<<<"f">>>> :> FileNode(<<>>)) @@
  (<<<<"d">>>> :> DirNode) @@ (<<<<"d">>, <<"a">>>> :> FileNode(<<0>>)) @@
  (<<<<"n">>>> :> DirNode) @@ (<<<<"n">>, <<"a">>>> :> FileNode(<<>>)) @@
  (<<<<"l">>>> :> OtherNode)

TreeNames == {<<"a">>, <<"n">>}

LeafNodes == {DirNode, OtherNode} \cup {FileNode(c) : c \in FileContents}

\* The trees that add one entry to tree t.
Grow(t) ==
  UNION {
    UNION {
      {t @@ (Append(d, n) :> node) : node \in LeafNodes}
      : n \in {m \in TreeNames : Append(d, m) \notin DOMAIN t}}
    : d \in {<<>>} \cup {p \in DOMAIN t : t[p].kind = "dir" /\ Len(p) < MaxDepth}}

RECURSIVE TreesUpTo(_)
\* Every tree over TreeNames of at most k entries, none deeper than MaxDepth.
TreesUpTo(k) ==
  IF k = 0 THEN {EmptyTree}
  ELSE LET smaller == TreesUpTo(k - 1)
       IN smaller \cup UNION {Grow(t) : t \in smaller}

SourceTrees == TreesUpTo(MaxEntries)

\* The exclusion lists tried.
PatternLists ==
  { <<>>,
    << <<"n">> >>,
    << <<"a", "/", "n">> >>,
    << <<"*">> >>,
    << <<"*", "*", "/", "n">>, <<"a", "/", "a">> >> }

\* The id of the i-th backup made before the first step, one per hour.
OldTimestamp(i) ==
  generateBackupTimestamp([sec |-> StartInstant.sec - 3600 * i, ms |-> 0])

LocalTarget == [name |-> <<"l">>, type |-> "local",
                path |-> [abs |-> TRUE, parts |-> TargetBase]]

\* A remote target; its path names the directory the local target uses, so
\* that a read or a write of it would show.
RemoteTarget == [name |-> <<"r">>, type |-> "remote",
                 path |-> [abs |-> TRUE, parts |-> TargetBase]]

\* A local target whose path is relative.
RelativeTarget == [name |-> <<"l">>, type |-> "local",
                   path |-> [abs |-> FALSE, parts |-> TargetBase]]

\* The configPath arguments tried: none, and the file c in directory c.
ConfigPaths ==
  {NoConfigPath, [defined |-> TRUE, parts |-> <<<<"c">>, DefaultConfigName>>]}

ProjectAt(root, exclude) ==
  [name |-> ProjectName, path |-> [abs |-> TRUE, parts |-> root],
   exclude |-> exclude]

Project(exclude) == ProjectAt(ProjectRoot, exclude)

\* A second place for the project directory; its absolute path holds the
\* strings "n" and "/n".
AltRoot == <<<<"n">>, <<"p">>>>

\* Another project that has a backup under the same target.
OtherProjectName == <<"q">>

Undefined == [defined |-> FALSE, value |-> 0]
Defined(v) == [defined |-> TRUE, value |-> v]

NoName == [defined |-> FALSE, name |-> <<>>]

\* The options of a call that is no command.
NoOptions == [project |-> NoName, all |-> FALSE, target |-> NoName,
              dryRun |-> FALSE, configPath |-> NoConfigPath,
              backup |-> <<>>, dest |-> <<>>]

(***************************************************************************)
(* State: the filesystem fs, the clock now, the loaded configuration config *)
(* and the record last of the operation performed last: its name and        *)
(* arguments, the filesystem before it, and what it returned or threw.      *)
(***************************************************************************)

Blank(f) ==
  [op |-> "init", dryRun |-> FALSE, err |-> "", before |-> f,
   project |-> <<>>, timestamp |-> <<>>, maxBackups |-> 0,
   source |-> <<>>, destination |-> <<>>, patterns |-> <<>>,
   stats |-> NoStats, path |-> <<>>, removed |-> <<>>, listed |-> <<>>,
   runs |-> <<>>, exitCode |-> 0, ignored |-> "", options |-> NoOptions,
   target |-> LocalTarget, configPath |-> NoConfigPath, matched |-> FALSE]

PreexistingCounts == {0, 2, MaxPreexisting}

\* k empty backup directories of the project, made before the first step,
\* beside a plain file that is no backup.
StrayFile == <<"l", "o", "g">>

OldBackups(k) ==
  IF k = 0 THEN Mount(EmptyTree, TargetBase)
  ELSE Mount([p \in {<<OldTimestamp(i)>> : i \in 1..k} |-> DirNode]
               @@ (<<StrayFile>> :> FileNode(<<>>)),
             Append(TargetBase, ProjectName))
       @@ Mount((<<<<"a">>>> :> FileNode(<<0>>)),
                TargetBase \o <<OtherProjectName, OldTimestamp(1)>>)

\* A target in which a plain file stands where the project's backup
\* directory would be.
BlockedTarget == Mount((<<ProjectName>> :> FileNode(<<>>)), TargetBase)

TargetLayouts == {OldBackups(k) : k \in PreexistingCounts} \cup {BlockedTarget}

ExistingDestTree == (<<<<"a">>>> :> FileNode(<<>>))

\* A destination where a plain file stands.
DestOccupied == Append(DestExisting, <<"a">>)


Init ==
  \E exclude \in {<<>>, << <<"n">> >>},
     layout \in TargetLayouts,
     keep \in {Undefined} \cup {Defined(v) : v \in 1..MaxKeep} :
    /\ fs = Mount(FixtureTree, ProjectRoot) @@ layout
              @@ Mount(ExistingDestTree, DestExisting)
    /\ now = StartInstant
    /\ config = [projects |-> <<Project(exclude)>>,
                 backupTargets |-> <<LocalTarget, RemoteTarget>>,
                 retention |-> keep]
    /\ last = Blank(fs)

InitCopy ==
  \E tree \in SourceTrees, exclude \in PatternLists,
     root \in {ProjectRoot, AltRoot}, present \in BOOLEAN :
    /\ present \/ tree = EmptyTree
    /\ fs = (IF present THEN Mount(tree, root) ELSE Mount(EmptyTree, <<>>))
              @@ OldBackups(2)
              @@ Mount(ExistingDestTree, DestExisting)
    /\ now = StartInstant
    /\ config = [projects |-> <<ProjectAt(root, exclude)>>,
                 backupTargets |-> <<LocalTarget, RelativeTarget>>,
                 retention |-> Undefined]
    /\ last = Blank(fs)

\* No call is in progress: the result of the last one has been taken.
Fresh == last.op = "init"

\* The caller takes the result of the call; the next call may start.
Return ==
  /\ ~Fresh
  /\ last' = Blank(fs)
  /\ UNCHANGED <<fs, now, config>>

\* Half a second passes.
Tick ==
  /\ Fresh
  /\ Elapsed(now) < MaxTicks
  /\ now' = IF now.ms + 500 >= 1000
              THEN [sec |-> now.sec + 1, ms |-> now.ms + 500 - 1000]
              ELSE [now EXCEPT !.ms = @ + 500]
  /\ UNCHANGED <<fs, config, last>>

\* fileSystem.copyDirectory(project path, DestNew, project.exclude, dryRun)
CopyDirectory ==
  /\ Fresh
  /\ \E dryRun \in BOOLEAN :
    LET project == config.projects[1]
        source == ResolvePath(project.path, NoConfigPath)
        rr == copyDirectory(fs, source, DestNew, project.exclude, dryRun)
    IN \E r \in {rr} :
       /\ fs' = r.fs
       /\ last' = [Blank(fs) EXCEPT !.op = "copyDirectory", !.dryRun = dryRun,
                                    !.err = r.err, !.source = source,
                                    !.destination = DestNew,
                                    !.patterns = project.exclude,
                                    !.stats = IF r.err = "" THEN r.stats ELSE NoStats]
       /\ UNCHANGED <<now, config>>

\* backupPlan.createBackup(project, target, generateBackupTimestamp(),
\*                         configPath, dryRun)
CreateBackup ==
  /\ Fresh
  /\ \E dryRun \in BOOLEAN, ti \in 1..Len(config.backupTargets),
        configPath \in ConfigPaths :
    LET project == config.projects[1]
        timestamp == generateBackupTimestamp(now)
        rr == createBackup(fs, project, config.backupTargets[ti], timestamp,
                          configPath, dryRun)
    IN \E r \in {rr} :
       /\ fs' = r.fs
       /\ last' = [Blank(fs) EXCEPT !.op = "createBackup", !.dryRun = dryRun,
                                    !.err = r.err, !.project = project.name,
                                    !.timestamp = timestamp,
                                    !.target = config.backupTargets[ti],
                                    !.configPath = configPath,
                                    !.source = ResolvePath(project.path, configPath),
                                    !.patterns = project.exclude,
                                    !.path = r.path, !.ignored = r.ignored,
                                    !.stats = IF r.err = "" THEN r.stats ELSE NoStats]
       /\ UNCHANGED <<now, config>>

\* backupPlan.listBackups(target, project.name, configPath)
ListBackups ==
  /\ Fresh
  /\ \E ti \in 1..Len(config.backupTargets), configPath \in ConfigPaths :
     LET project == config.projects[1]
         rr == listBackups(fs, config.backupTargets[ti], project.name, configPath)
     IN \E r \in {rr} :
        /\ last' = [Blank(fs) EXCEPT !.op = "listBackups", !.err = r.err,
                                     !.target = config.backupTargets[ti],
                                     !.configPath = configPath,
                                     !.project = project.name, !.listed = r.backups]
        /\ UNCHANGED <<fs, now, config>>

\* backupPlan.applyRetention(target, project.name, maxBackups, undefined, dryRun)
ApplyRetention ==
  /\ Fresh
  /\ \E maxBackups \in 1..MaxKeep, dryRun \in BOOLEAN,
        ti \in 1..Len(config.backupTargets) :
    LET project == config.projects[1]
        rr == applyRetention(fs, config.backupTargets[ti], project.name, maxBackups,
                            NoConfigPath, dryRun)
    IN \E r \in {rr} :
       /\ fs' = r.fs
       /\ last' = [Blank(fs) EXCEPT !.op = "applyRetention", !.dryRun = dryRun,
                                    !.err = r.err, !.project = project.name,
                                    !.maxBackups = maxBackups,
                                    !.target = config.backupTargets[ti],
                                    !.removed = r.toRemove]
       /\ UNCHANGED <<now, config>>

\* The backup paths a restore is tried from: the project directory itself,
\* and the newest and the oldest backup listed.
RestoreSources ==
  LET project == config.projects[1]
      listed == listBackups(fs, config.backupTargets[1], project.name,
                            NoConfigPath).backups
  IN {ResolvePath(project.path, NoConfigPath)}
       \cup {listed[i].path : i \in {j \in {1, Len(listed)} : j \in 1..Len(listed)}}

\* backupPlan.restoreBackup(backupPath, destination, dryRun)
RestoreBackup ==
  /\ Fresh
  /\ \E backupPath \in RestoreSources,
        destination \in {DestNew, DestExisting, DestOccupied}, dryRun \in BOOLEAN :
    \E r \in {restoreBackup(fs, backupPath, destination, dryRun)} :
       /\ fs' = r.fs
       /\ last' = [Blank(fs) EXCEPT !.op = "restoreBackup", !.dryRun = dryRun,
                                    !.err = r.err, !.source = backupPath,
                                    !.ignored = r.ignored,
                                    !.destination = destination]
       /\ UNCHANGED <<now, config>>

\* The values of --target: none, and the name of each configured target.
TargetOptions ==
  {NoName} \cup {[defined |-> TRUE, name |-> config.backupTargets[i].name]
                   : i \in 1..Len(config.backupTargets)}

\* backupCommand({ project or all, target, dryRun })
BackupCommand ==
  /\ Fresh
  /\ \E all \in BOOLEAN, dryRun \in BOOLEAN, target \in TargetOptions :
    LET options == [project |-> IF all THEN NoName
                                ELSE [defined |-> TRUE, name |-> ProjectName],
                    all |-> all, target |-> target, dryRun |-> dryRun,
                    configPath |-> NoConfigPath,
                    backup |-> <<>>, dest |-> <<>>]
        rr == backupCommand(fs, now, config, options)
    IN \E r \in {rr} :
       /\ fs' = r.fs
       /\ last' = [Blank(fs) EXCEPT !.op = "backupCommand", !.dryRun = dryRun,
                                    !.err = r.err, !.runs = r.runs,
                                    !.options = options,
                                    !.timestamp = generateBackupTimestamp(now),
                                    !.exitCode = r.exitCode]
       /\ UNCHANGED <<now, config>>

Next ==
  \/ Tick
  \/ CopyDirectory
  \/ CreateBackup
  \/ ListBackups
  \/ ApplyRetention
  \/ RestoreBackup
  \/ BackupCommand
  \/ Return

Spec == Init /\ [][Next]_vars

\* One operation on a generated source tree.
NextCopy == CopyDirectory \/ CreateBackup \/ RestoreBackup

SpecCopy == InitCopy /\ [][NextCopy]_vars

(***************************************************************************)
(* The commands on a configuration of several projects and two local       *)
(* targets.                                                                *)
(***************************************************************************)

SecondProjectRoot == <<<<"q">>>>
ThirdProjectName == <<"s">>
ThirdProjectRoot == <<<<"s">>>>

SecondProject == [name |-> OtherProjectName,
                  path |-> [abs |-> TRUE, parts |-> SecondProjectRoot],
                  exclude |-> <<>>]
ThirdProject == [name |-> ThirdProjectName,
                 path |-> [abs |-> TRUE, parts |-> ThirdProjectRoot],
                 exclude |-> <<>>]

SmallTree == (<<<<"a">>>> :> FileNode(<<0>>))

\* A second local target, stored elsewhere.
SecondBase == <<<<"m">>>>
SecondTarget == [name |-> <<"m">>, type |-> "local",
                 path |-> [abs |-> TRUE, parts |-> SecondBase]]

\* A directory in the project's backup directory that no backup made.
StrayDirectory == <<"o", "l", "d">>
WithStrayDirectory ==
  OldBackups(2) @@ Mount(EmptyTree, TargetBase \o <<ProjectName, StrayDirectory>>)

\* A target in which the second project has two old backups and a
\* directory with the id of the first instant, which holds a directory where
\* the project has a file: the copy of that instant fails.
BlockedSecond ==
  Mount((<<OldTimestamp(1)>> :> DirNode), Append(TargetBase, ProjectName))
    @@ Mount([p \in {<<OldTimestamp(i)>> : i \in 1..2} |-> DirNode]
               @@ (<<generateBackupTimestamp(StartInstant)>> :> DirNode)
               @@ (<<generateBackupTimestamp(StartInstant), <<"a">>>> :> DirNode),
             Append(TargetBase, OtherProjectName))

CommandLayouts == {OldBackups(2), WithStrayDirectory, BlockedSecond}

\* The values of retention.maxBackupsPerProject tried, with those below 1.
Retentions == {Undefined} \cup {Defined(v) : v \in (0 - 1)..MaxKeep}

\* One project is configured where the layout holds its backups only, and
\* three where the layout has a place for the second one's.
InitCommand ==
  \E layout \in CommandLayouts, keep \in Retentions :
    /\ fs = Mount(FixtureTree, ProjectRoot) @@ Mount(SmallTree, SecondProjectRoot)
              @@ Mount(SmallTree, ThirdProjectRoot) @@ layout
              @@ Mount(ExistingDestTree, DestExisting)
    /\ now = StartInstant
    /\ config = [projects |-> IF layout = BlockedSecond
                                THEN <<Project(<< <<"n">> >>), SecondProject, ThirdProject>>
                                ELSE <<Project(<< <<"n">> >>)>>,
                 backupTargets |-> <<LocalTarget, SecondTarget>>,
                 retention |-> keep]
    /\ last = Blank(fs)

\* The ids asked of restoreCommand: an old backup's, the first instant's and
\* the present one's.
RestoreIds ==
  {OldTimestamp(1), generateBackupTimestamp(StartInstant), generateBackupTimestamp(now)}

\* restoreCommand({ project, backup, dest, dryRun })
RestoreCommand ==
  /\ Fresh
  /\ \E backup \in RestoreIds, dryRun \in BOOLEAN :
    LET dest == DestNew
        options == [project |-> [defined |-> TRUE, name |-> ProjectName],
                    all |-> FALSE, target |-> NoName, dryRun |-> dryRun,
                    configPath |-> NoConfigPath, backup |-> backup, dest |-> dest]
        rr == restoreCommand(fs, config,
                             [project |-> options.project.name, backup |-> backup,
                              dest |-> dest, dryRun |-> dryRun,
                              configPath |-> NoConfigPath])
    IN \E r \in {rr} :
       /\ fs' = r.fs
       /\ last' = [Blank(fs) EXCEPT !.op = "restoreCommand", !.dryRun = dryRun,
                                    !.err = r.err, !.options = options,
                                    !.source = r.path, !.destination = dest,
                                    !.exitCode = r.exitCode]
       /\ UNCHANGED <<now, config>>

NextCommand == Tick \/ BackupCommand \/ RestoreCommand \/ Return

SpecCommand == InitCommand /\ [][NextCommand]_vars

(***************************************************************************)
(* createBackup into a storage directory that exists already.              *)
(***************************************************************************)

\* The most entries of the project tree and of the tree found in storage.
MaxMergeEntries == 2

\* What an earlier backup can have left: directories and regular files.
StoredTrees ==
  {t \in TreesUpTo(MaxMergeEntries) : \A q \in DOMAIN t : t[q].kind # "other"}

InitMerge ==
  \E tree \in TreesUpTo(MaxMergeEntries), stored \in StoredTrees,
     exclude \in {<<>>, << <<"n">> >>} :
    /\ fs = Mount(tree, ProjectRoot)
              @@ Mount(stored, TargetBase
                                 \o <<ProjectName, generateBackupTimestamp(StartInstant)>>)
    /\ now = StartInstant
    /\ config = [projects |-> <<Project(exclude)>>,
                 backupTargets |-> <<LocalTarget>>,
                 retention |-> Undefined]
    /\ last = Blank(fs)

NextMerge == CreateBackup

SpecMerge == InitMerge /\ [][NextMerge]_vars

\* Seconds of the epoch just before a minute, an hour, a day, a month, a
\* leap day, a year and a century end, the first second of the epoch, the
\* instant of the example in the source, and one near the end of the range.
ClockBases ==
  {0, 946684799, 951782399, 951868799, 1709164799, 1735689599, 1736935199,
   1740787199, 1759276799, 1760054399, 1764917971, 2147483640}

\* The seconds after a base that the clock may show.
MaxSkew == 2

ClockInstants ==
  {[sec |-> b + d, ms |-> m] : b \in ClockBases, d \in 0..MaxSkew, m \in {0, 999}}

InitClock ==
  /\ fs = Mount(EmptyTree, TargetBase)
  /\ now \in ClockInstants
  /\ config = [projects |-> <<Project(<<>>)>>,
               backupTargets |-> <<LocalTarget>>,
               retention |-> Undefined]
  /\ last = Blank(fs)

\* backupPlan.generateBackupTimestamp()
GenerateTimestamp ==
  /\ Fresh
  /\ last' = [Blank(fs) EXCEPT !.op = "generateBackupTimestamp",
                               !.timestamp = generateBackupTimestamp(now)]
  /\ UNCHANGED <<fs, now, config>>

NextClock == GenerateTimestamp

\* One id generated at an instant of the clock.
SpecClock == InitClock /\ [][NextClock]_vars

\* The names that the segments of a relative path are drawn from.
SegmentNames ==
  {<<"a">>,
   <<"b">>,
   <<"x", ".", "l", "o", "g">>,
   <<"l", "o", "g", "s">>,
   <<"c", "a", "t", "a", "l", "o", "g">>}

\* The most segments of a generated relative path.
MaxSegments == 2

RECURSIVE PathsUpTo(_)
\* The relative paths of at most k segments, as sequences of segments.
PathsUpTo(k) ==
  IF k = 0 THEN {<<>>}
  ELSE LET shorter == PathsUpTo(k - 1)
       IN shorter \cup {Append(p, n) : p \in shorter, n \in SegmentNames}

\* Normalized relative paths: the generated ones and those of the examples.
MatchPaths ==
  {JoinWith(p, Slash) : p \in PathsUpTo(MaxSegments) \ {<<>>}}
    \cup {<<"a", "c", "c", "e", "s", "s", ".", "l", "o", "g">>,
           <<"c", "a", "t", "a", "l", "o", "g", "/", "f", "i", "l", "e", ".", "t", "x", "t">>,
           <<"a", "/", "b", "/", "x", ".", "l", "o", "g">>}

\* The exclusion patterns tried on them.
MatchPatterns ==
  {<<"*", "*", "/", "x", ".", "l", "o", "g">>,
   <<"*", ".", "l", "o", "g">>,
   <<"l", "o", "g">>,
   <<"*", "*">>,
   <<"a", "/", "*", "*">>,
   <<"a", "/", "*">>,
   <<"*">>,
   <<"a", "/", "*", "*", "/", "x", ".", "l", "o", "g">>,
   <<"x", ".", "l", "o", "g">>,
   <<"*", "/", "x", ".", "l", "o", "g">>,
   <<"*", "*", "/", "a">>,
   <<"l", "*", "g", "*">>}

InitMatch ==
  /\ fs = Mount(EmptyTree, TargetBase)
  /\ now = StartInstant
  /\ \E pattern \in MatchPatterns :
       config = [projects |-> <<Project(<<pattern>>)>>,
                 backupTargets |-> <<LocalTarget>>,
                 retention |-> Undefined]
  /\ last = Blank(fs)

\* this.shouldExclude(relativePath, excludePatterns), as the walk asks for an
\* entry at relativePath
ShouldExclude ==
  /\ Fresh
  /\ \E relativePath \in MatchPaths :
       last' = [Blank(fs) EXCEPT !.op = "shouldExclude", !.source = relativePath,
                                 !.patterns = config.projects[1].exclude,
                                 !.matched = shouldExclude(relativePath,
                                                           config.projects[1].exclude)]
  /\ UNCHANGED <<fs, now, config>>

NextMatch == ShouldExclude

\* One question to the path matcher.
SpecMatch == InitMatch /\ [][NextMatch]_vars

(***************************************************************************)
(* Properties                                                              *)
(***************************************************************************)

Prefixes(p) == {SubSeq(p, 1, k) : k \in 1..Len(p)}

Range(s) == {s[i] : i \in 1..Len(s)}

Occurrences(s, x) == Cardinality({i \in 1..Len(s) : s[i] = x})

\* The path p, relative to the copy root, matches an exclusion pattern.
Excluded(p, patterns) == shouldExclude(JoinWith(p, Slash), patterns)

\* The entries of tree T that are neither excluded nor below an excluded entry.
Kept(T, patterns) ==
  {p \in DOMAIN T : \A q \in Prefixes(p) : ~Excluded(q, patterns)}

KeptOfKind(T, patterns, kind) == {p \in Kept(T, patterns) : T[p].kind = kind}

\* The excluded directories that the walk meets: none of their ancestors is
\* excluded.
PrunedDirectories(T, patterns) ==
  {d \in DOMAIN T : /\ T[d].kind = "dir"
                    /\ Excluded(d, patterns)
                    /\ \A q \in Prefixes(d) \ {d} : ~Excluded(q, patterns)}

RECURSIVE SumOfSizes(_, _)
SumOfSizes(T, S) ==
  IF S = {} THEN 0
  ELSE LET p == CHOOSE q \in S : TRUE
       IN Len(T[p].data) + SumOfSizes(T, S \ {p})

\* The names of the backup directories of the project under the target.
BackupDirs(f) ==
  {q[Len(q)] : q \in {r \in DOMAIN f : /\ Len(r) = Len(TargetBase) + 2
                                       /\ IsPrefix(Append(TargetBase, ProjectName), r)
                                       /\ f[r].kind = "dir"}}

IsDirectoryIn(f, p) == p \in DOMAIN f /\ f[p].kind = "dir"

\* C1: whenever the destination of restoreBackup already exists as a
\* directory, the call fails with the destination-exists error and leaves the
\* filesystem as it was, simulating or not.
C1_RestoreGuard ==
  (last.op = "restoreBackup" /\ IsDirectoryIn(last.before, last.destination))
    => /\ last.err = "Destination directory already exists"
       /\ fs = last.before

\* A restore that does not simulate, into a directory that exists.
C1_Witness ==
  /\ last.op = "restoreBackup"
  /\ ~last.dryRun
  /\ IsDirectoryIn(last.before, last.destination)
  /\ IsDirectoryIn(last.before, last.source)

\* C2: applyRetention, not simulating, with n backups and maxBackups = m >= 1:
\* if n > m it removes exactly the n - m backups of smallest id and leaves the
\* m of largest id; if n <= m it removes nothing and returns an empty list.
C2_RetentionExact ==
  (last.op = "applyRetention" /\ last.target.type = "local" /\ ~last.dryRun
     /\ last.err = "")
    => LET before == BackupDirs(last.before)
           after == BackupDirs(fs)
           m == last.maxBackups
           dir(id) == TargetBase \o <<ProjectName, id>>
       IN IF Cardinality(before) > m
            THEN /\ after \subseteq before
                 /\ Cardinality(after) = m
                 /\ \A kept \in after, gone \in before \ after :
                      CompareBy(CodeUnit, gone, kept) < 0
                 /\ Len(last.removed) = Cardinality(before) - m
                 /\ Range(last.removed) = {dir(id) : id \in before \ after}
            ELSE /\ fs = last.before
                 /\ last.removed = <<>>

\* A retention run that removes more than one backup and keeps some.
C2_Witness ==
  /\ last.op = "applyRetention"
  /\ ~last.dryRun
  /\ Cardinality(BackupDirs(last.before)) >= last.maxBackups + 2
  /\ Len(last.removed) >= 2
  /\ last.maxBackups = 2

\* C3: with dryRun, none of copyDirectory, createBackup, applyRetention and
\* restoreBackup changes the filesystem, whether the call returns or throws.
C3_DryRunNoWrite ==
  (last.op \in {"copyDirectory", "createBackup", "applyRetention", "restoreBackup"}
     /\ last.dryRun)
    => fs = last.before

\* A simulated createBackup that reports files it would copy.
C3_Witness ==
  /\ last.op = "createBackup"
  /\ last.dryRun
  /\ last.err = ""
  /\ last.stats.filesCopied > 0

\* C4 (as claimed): copyDirectory returns the same filesCopied and the same
\* directoriesCreated with dryRun as without, on the same inputs.
C4_SameCounts ==
  (last.op = "copyDirectory" /\ ~last.dryRun /\ last.err = "")
    => LET dry == copyDirectory(last.before, last.source, last.destination,
                                last.patterns, TRUE)
       IN /\ dry.err = ""
          /\ dry.stats.filesCopied = last.stats.filesCopied
          /\ dry.stats.directoriesCreated = last.stats.directoriesCreated

\* C5: an excluded directory that the walk meets is recorded once in skipped
\* and never entered: no descendant is in skipped, none is written to the
\* destination, and none is counted in filesCopied or directoriesCreated.
C5_ExcludedDirectoryPruned ==
  (last.op = "copyDirectory" /\ last.err = "")
    => LET T == TreeAt(last.before, last.source)
           D == TreeAt(fs, last.destination)
       IN \A d \in PrunedDirectories(T, last.patterns) :
            /\ Occurrences(last.stats.skipped, JoinWith(d, Slash)) = 1
            /\ d \notin DOMAIN D
            /\ \A q \in DOMAIN T :
                 (IsPrefix(d, q) /\ q # d)
                   => /\ JoinWith(q, Slash) \notin Range(last.stats.skipped)
                      /\ q \notin DOMAIN D
            /\ last.stats.filesCopied =
                 Cardinality(KeptOfKind(T, last.patterns, "file"))
            /\ ~last.dryRun =>
                 last.stats.directoriesCreated =
                   1 + Cardinality(KeptOfKind(T, last.patterns, "dir"))

\* A copy that meets an excluded directory holding a file.
C5_Witness ==
  /\ last.op = "copyDirectory"
  /\ ~last.dryRun
  /\ last.err = ""
  /\ LET T == TreeAt(last.before, last.source)
     IN \E d \in PrunedDirectories(T, last.patterns) :
          \E q \in DOMAIN T : IsPrefix(d, q) /\ q # d /\ T[q].kind = "file"

\* C6: after a successful createBackup, not simulating, into a storage path
\* that did not exist, the backup tree is the project tree without its
\* excluded entries and what is below them: every other regular file and
\* directory is there at the same relative path, and nothing else is.
C6_BackupIsFilteredTree ==
  (last.op = "createBackup" /\ ~last.dryRun /\ last.err = ""
     /\ last.path \notin DOMAIN last.before)
    => LET T == TreeAt(last.before, last.source)
           regular == KeptOfKind(T, last.patterns, "file")
                        \cup KeptOfKind(T, last.patterns, "dir")
       IN /\ IsDirectoryIn(fs, last.path)
          /\ TreeAt(fs, last.path) = [p \in regular |-> T[p]]

\* A backup that leaves an excluded entry out and keeps a file in a directory.
C6_Witness ==
  /\ last.op = "createBackup"
  /\ ~last.dryRun
  /\ last.err = ""
  /\ last.path \notin DOMAIN last.before
  /\ LET T == TreeAt(last.before, last.source)
     IN /\ \E p \in DOMAIN T : Excluded(p, last.patterns)
        /\ \E p \in KeptOfKind(T, last.patterns, "file") : Len(p) >= 2

\* C7: for a copyDirectory that succeeds without simulating, filesCopied is
\* the number of regular files of the source that are neither excluded nor
\* below an excluded directory, and bytesCopied the sum of their sizes.
C7_CopyCounts ==
  (last.op = "copyDirectory" /\ ~last.dryRun /\ last.err = "")
    => LET T == TreeAt(last.before, last.source)
           files == KeptOfKind(T, last.patterns, "file")
       IN /\ last.stats.filesCopied = Cardinality(files)
          /\ last.stats.bytesCopied = SumOfSizes(T, files)

\* A copy of two files that hold bytes.
C7_Witness ==
  /\ last.op = "copyDirectory"
  /\ ~last.dryRun
  /\ last.err = ""
  /\ last.stats.filesCopied >= 2
  /\ last.stats.bytesCopied >= 2

\* C8: a successful restoreBackup, not simulating, of a backup tree of
\* regular files and directories into a destination that does not exist
\* yields a destination tree equal to the backup tree.
C8_RestoreRoundTrip ==
  (last.op = "restoreBackup" /\ ~last.dryRun /\ last.err = ""
     /\ last.destination \notin DOMAIN last.before
     /\ \A p \in DOMAIN TreeAt(last.before, last.source) :
          TreeAt(last.before, last.source)[p].kind \in {"file", "dir"})
    => /\ IsDirectoryIn(fs, last.destination)
       /\ TreeAt(fs, last.destination) = TreeAt(last.before, last.source)

\* A restore of a tree that holds a file in a directory named like a usual
\* exclusion.
C8_Witness ==
  /\ last.op = "restoreBackup"
  /\ ~last.dryRun
  /\ last.err = ""
  /\ last.destination \notin DOMAIN last.before
  /\ LET B == TreeAt(last.before, last.source)
     IN /\ \A p \in DOMAIN B : B[p].kind \in {"file", "dir"}
        /\ \E p \in DOMAIN B : B[p].kind = "file" /\ Len(p) >= 2 /\ p[1] = <<"n">>

\* C9: after a backupCommand run that is no dry run and ends successfully,
\* the project has at most maxBackupsPerProject backup directories under the
\* target (10 when the configuration sets none).
C9_RetentionBound ==
  (last.op = "backupCommand" /\ ~last.dryRun /\ last.exitCode = 0)
    => Cardinality(BackupDirs(fs)) <=
         (IF config.retention.defined THEN config.retention.value ELSE 10)

\* A successful run that starts with as many backups as the default allows.
C9_Witness ==
  /\ last.op = "backupCommand"
  /\ ~last.dryRun
  /\ last.exitCode = 0
  /\ ~config.retention.defined
  /\ Cardinality(BackupDirs(last.before)) >= 10
  /\ BackupDirs(fs) # BackupDirs(last.before)

\* C10: listBackups returns one record per immediate subdirectory of the
\* project's backup directory, newest first: no record's id is
\* lexicographically smaller than the id of the record after it.
C10_ListedNewestFirst ==
  (last.op = "listBackups" /\ last.target.type = "local" /\ last.err = "")
    => /\ Len(last.listed) = Cardinality(BackupDirs(fs))
       /\ {last.listed[i].timestamp : i \in 1..Len(last.listed)} = BackupDirs(fs)
       /\ \A i \in 1..Len(last.listed) :
            /\ last.listed[i].path = TargetBase \o <<ProjectName, last.listed[i].timestamp>>
            /\ last.listed[i].projectName = ProjectName
       /\ \A i \in 1..(Len(last.listed) - 1) :
            CompareBy(CodeUnit, last.listed[i].timestamp,
                      last.listed[i + 1].timestamp) >= 0

\* A listing of old and new backups beside a plain file.
C10_Witness ==
  /\ last.op = "listBackups"
  /\ Len(last.listed) >= 4
  /\ Append(Append(TargetBase, ProjectName), StrayFile) \in DOMAIN fs
  /\ \E i \in 1..Len(last.listed) :
       last.listed[i].timestamp = generateBackupTimestamp(StartInstant)

\* The directory <basePath>/<projectName> of the call recorded in last.
ProjectBackupDirOfLast ==
  ResolvePath(last.target.path, last.configPath) \o <<last.project>>

\* Something that is no directory stands at p or at a directory above p.
BlockedByNonDirectory(f, p) ==
  \E q \in Prefixes(p) : q \in DOMAIN f /\ f[q].kind # "dir"

\* C11: listBackups on a local target whose project backup directory does not
\* exist returns the empty sequence and raises nothing; when the directory
\* cannot be read for another reason (a plain file stands in its place) the
\* call raises an error and does not answer with an empty list.
C11_MissingDirectoryIsEmpty ==
  (last.op = "listBackups" /\ last.target.type = "local")
    => /\ (ProjectBackupDirOfLast \notin DOMAIN fs
             /\ ~BlockedByNonDirectory(fs, ProjectBackupDirOfLast))
            => (last.err = "" /\ last.listed = <<>>)
       /\ BlockedByNonDirectory(fs, ProjectBackupDirOfLast)
            => last.err = "Failed to list backups"

\* A listing for a project that has no backup directory under an existing
\* target.
C11_Witness ==
  /\ last.op = "listBackups"
  /\ last.target.type = "local"
  /\ IsDirectoryIn(fs, TargetBase)
  /\ ProjectBackupDirOfLast \notin DOMAIN fs
  /\ last.err = ""
  /\ last.listed = <<>>

\* C12: no operation on a remote target touches the filesystem: createBackup
\* throws before it creates or copies anything, and listBackups and
\* applyRetention answer with an empty result, whatever the directory that
\* the target's path names holds.
C12_RemoteTargetUntouched ==
  (last.op \in {"createBackup", "listBackups", "applyRetention"}
     /\ last.target.type = "remote")
    => /\ fs = last.before
       /\ last.op = "createBackup"
            => last.err = "Remote backups are not yet implemented"
       /\ last.op = "listBackups" => (last.err = "" /\ last.listed = <<>>)
       /\ last.op = "applyRetention" => (last.err = "" /\ last.removed = <<>>)

\* A createBackup that would write, on a remote target whose path holds more
\* backups than any retention tried keeps.
C12_Witness ==
  /\ last.op = "createBackup"
  /\ ~last.dryRun
  /\ last.target.type = "remote"
  /\ last.err # ""
  /\ Cardinality(BackupDirs(fs)) > MaxKeep

\* s has the form YYYY-MM-DDTHH-mm-ssZ.
IsTimestampForm(s) ==
  /\ Len(s) = 20
  /\ \A i \in 1..Len(s) :
       IF i \in {5, 8, 14, 17} THEN s[i] = "-"
       ELSE IF i = 11 THEN s[i] = "T"
       ELSE IF i = 20 THEN s[i] = "Z"
       ELSE s[i] \in Range(Digits)

\* C13: generateBackupTimestamp yields a string of the form
\* YYYY-MM-DDTHH-mm-ssZ without the fraction of the second, and the order of
\* ids by code units is the order of the whole seconds: the id of any instant
\* of the same second is equal, the id of any instant of an earlier second is
\* strictly smaller.
C13_TimestampOrder ==
  last.op = "generateBackupTimestamp"
    => /\ IsTimestampForm(last.timestamp)
       /\ \A t \in ClockInstants :
            /\ t.sec = now.sec => generateBackupTimestamp(t) = last.timestamp
            /\ t.sec < now.sec
                 => CompareBy(CodeUnit, generateBackupTimestamp(t), last.timestamp) < 0

\* An id made late in the first second of a year, the last second of the
\* year before being one second earlier.
C13_Witness ==
  /\ last.op = "generateBackupTimestamp"
  /\ now.ms = 999
  /\ SubSeq(last.timestamp, 5, 20) =
       <<"-", "0", "1", "-", "0", "1", "T", "0", "0", "-", "0", "0", "-", "0", "0", "Z">>
  /\ [sec |-> now.sec - 1, ms |-> 0] \in ClockInstants

\* C14: after a successful createBackup that writes, on a local target, the
\* path returned is getBackupPath(target, project.name, id, configPath), which
\* is <basePath>/<projectName>/<id>, and listBackups(target, project.name,
\* configPath) holds exactly one record whose timestamp is id, its path being
\* the path returned.
C14_CreateListRoundTrip ==
  (last.op = "createBackup" /\ ~last.dryRun /\ last.err = "")
    => LET basePath == IF last.target.path.abs THEN last.target.path.parts
                       ELSE IF last.configPath.defined
                         THEN Dirname(last.configPath.parts) \o last.target.path.parts
                       ELSE Cwd \o last.target.path.parts
           listed == listBackups(fs, last.target, last.project, last.configPath)
           hits == {i \in 1..Len(listed.backups) :
                      listed.backups[i].timestamp = last.timestamp}
       IN /\ last.path = getBackupPath(last.target, last.project, last.timestamp,
                                       last.configPath).parts
          /\ last.path = basePath \o <<last.project, last.timestamp>>
          /\ listed.err = ""
          /\ Cardinality(hits) = 1
          /\ \A i \in hits : listed.backups[i].path = last.path

\* A backup made on a target whose relative path resolves against the
\* directory of the configuration file.
C14_Witness ==
  /\ last.op = "createBackup"
  /\ ~last.dryRun
  /\ last.err = ""
  /\ ~last.target.path.abs
  /\ last.configPath.defined
  /\ last.stats.filesCopied > 0

RECURSIVE SplitAll(_, _)
\* The parts of s between the occurrences of the character sep.
SplitAll(s, sep) ==
  IF \E i \in 1..Len(s) : s[i] = sep
    THEN LET first == SplitFirst(s, sep)
         IN <<first>> \o SplitAll(SubSeq(s, Len(first) + 2, Len(s)), sep)
    ELSE <<s>>

RECURSIVE SegmentMatches(_, _)
\* The glob rule within one path segment: `*` stands for any run of
\* characters, every other character for itself.
SegmentMatches(segment, pattern) ==
  IF pattern = <<>> THEN segment = <<>>
  ELSE IF Head(pattern) = "*"
    THEN \/ SegmentMatches(segment, Tail(pattern))
         \/ segment # <<>> /\ SegmentMatches(Tail(segment), pattern)
  ELSE /\ segment # <<>>
       /\ Head(segment) = Head(pattern)
       /\ SegmentMatches(Tail(segment), Tail(pattern))

RECURSIVE SegmentsMatch(_, _)
\* The glob rule on whole paths: a pattern segment `**` stands for zero or
\* more whole path segments, any other for one segment that it matches.
SegmentsMatch(segments, patterns) ==
  IF patterns = <<>> THEN segments = <<>>
  ELSE IF Head(patterns) = <<"*", "*">>
    THEN \/ SegmentsMatch(segments, Tail(patterns))
         \/ segments # <<>> /\ SegmentsMatch(Tail(segments), patterns)
  ELSE /\ segments # <<>>
       /\ SegmentMatches(Head(segments), Head(patterns))
       /\ SegmentsMatch(Tail(segments), Tail(patterns))

GlobRule(path, pattern) == SegmentsMatch(SplitAll(path, "/"), SplitAll(pattern, "/"))

\* C15 (as claimed): the path matcher treats `**` as zero or more whole path
\* segments and `*` as a run of characters without `/`: a path that the glob
\* rule matches is reported as matching, and a path reported as matching is
\* matched by the glob rule or holds the pattern as a substring.
C15_GlobSemantics ==
  last.op = "shouldExclude"
    => /\ GlobRule(last.source, last.patterns[1]) => last.matched
       /\ last.matched => \/ GlobRule(last.source, last.patterns[1])
                          \/ Includes(last.source, last.patterns[1])

\* C16: a path that holds the literal pattern as a substring is reported as
\* matching, whether or not the glob rule matches it.
C16_SubstringMatches ==
  (last.op = "shouldExclude" /\ Includes(last.source, last.patterns[1]))
    => last.matched

\* The pattern log on catalog/file.txt, which the glob rule does not match.
C16_Witness ==
  /\ last.op = "shouldExclude"
  /\ last.patterns = << <<"l", "o", "g">> >>
  /\ last.source = <<"c", "a", "t", "a", "l", "o", "g", "/", "f", "i", "l", "e", ".", "t", "x", "t">>
  /\ ~GlobRule(last.source, last.patterns[1])
  /\ last.matched

\* The root, of ProjectRoot and AltRoot, that the copy recorded in last did
\* not read from.
OtherRootOfLast == IF last.source = ProjectRoot THEN AltRoot ELSE ProjectRoot

\* C17: exclusion depends only on the path relative to the copy root: the
\* same tree copied from another absolute root with the same patterns gives
\* the same skipped list, the same counts and the same copied tree, also when
\* the absolute path of a root holds a pattern string.
C17_RootIndependent ==
  (last.op = "copyDirectory" /\ last.err = "")
    => LET T == TreeAt(last.before, last.source)
           elsewhere == copyDirectory(Mount(T, OtherRootOfLast), OtherRootOfLast,
                                      last.destination, last.patterns, last.dryRun)
       IN /\ elsewhere.err = ""
          /\ elsewhere.stats = last.stats
          /\ TreeAt(elsewhere.fs, last.destination) = TreeAt(fs, last.destination)

\* A copy from the root whose absolute path holds the pattern n, which skips
\* an entry and copies a file.
C17_Witness ==
  /\ last.op = "copyDirectory"
  /\ ~last.dryRun
  /\ last.err = ""
  /\ last.source = AltRoot
  /\ last.patterns = << <<"n">> >>
  /\ last.stats.skipped # <<>>
  /\ last.stats.filesCopied > 0

\* The backup directories of every project under the local target:
\* <basePath>/<projectName>/<id>.
AllBackupPaths(f) ==
  {d \in DOMAIN f : /\ Len(d) = Len(TargetBase) + 2
                    /\ IsPrefix(TargetBase, d)
                    /\ f[d].kind = "dir"}

\* C18: createBackup removes and alters no other backup: when it has
\* returned or thrown, every backup directory that existed before, of any
\* project, other than the one of this project and id, exists with the
\* content it had.
C18_OtherBackupsKept ==
  last.op = "createBackup"
    => \A d \in AllBackupPaths(last.before) :
         d # TargetBase \o <<last.project, last.timestamp>>
           => /\ IsDirectoryIn(fs, d)
              /\ TreeAt(fs, d) = TreeAt(last.before, d)

\* A backup made beside an earlier backup that holds files, more backups of
\* the project than any retention tried keeps, and a backup of another
\* project.
C18_Witness ==
  /\ last.op = "createBackup"
  /\ ~last.dryRun
  /\ last.err = ""
  /\ last.path \notin DOMAIN last.before
  /\ Cardinality(BackupDirs(last.before)) > MaxKeep
  /\ \E d \in AllBackupPaths(last.before) :
       d[Len(d) - 1] = ProjectName /\ DOMAIN TreeAt(last.before, d) # {}
  /\ \E d \in AllBackupPaths(last.before) : d[Len(d) - 1] = OtherProjectName

\* C19 (as claimed): a record for an id exists only once the copy for it has
\* finished: a createBackup on a local target that throws leaves no record
\* with its id for listBackups to return, unless one was there before.
C19_RecordOnlyAfterCopy ==
  (last.op = "createBackup" /\ last.target.type = "local" /\ last.err # "")
    => LET ids(f) == LET listed == listBackups(f, last.target, last.project,
                                               last.configPath).backups
                     IN {listed[i].timestamp : i \in 1..Len(listed)}
       IN last.timestamp \in ids(fs) => last.timestamp \in ids(last.before)

\* C20: applyRetention that simulates returns the list that applyRetention
\* that removes would return from the same state, the paths of the backups
\* it would remove, and leaves every backup in place.
C20_DryRetentionSameList ==
  (last.op = "applyRetention" /\ last.dryRun /\ last.err = "")
    => LET real == applyRetention(last.before, last.target, last.project,
                                  last.maxBackups, NoConfigPath, FALSE)
       IN /\ real.err = ""
          /\ last.removed = real.toRemove
          /\ \A i \in 1..Len(last.removed) : last.removed[i] \notin DOMAIN real.fs
          /\ \A d \in AllBackupPaths(last.before) \ AllBackupPaths(real.fs) :
               d \in Range(last.removed)
          /\ AllBackupPaths(fs) = AllBackupPaths(last.before)
          /\ fs = last.before

\* A simulated retention run that reports more than one backup as excess.
C20_Witness ==
  /\ last.op = "applyRetention"
  /\ last.dryRun
  /\ last.err = ""
  /\ last.target.type = "local"
  /\ Len(last.removed) >= 2
  /\ \A i \in 1..Len(last.removed) : IsDirectoryIn(fs, last.removed[i])

\* C21: every call of applyRetention that backupCommand makes passes a
\* maxBackups of at least 1: a configuration whose
\* retention.maxBackupsPerProject is below 1 makes the command fail before
\* anything is backed up or removed, and one without the setting passes 10.
C21_RetentionAtLeastOne ==
  last.op = "backupCommand" =>
    /\ \A i \in 1..Len(last.runs) : last.runs[i].maxBackups >= 1
    /\ (config.retention.defined /\ config.retention.value < 1) =>
         /\ last.exitCode = 1
         /\ last.err = "maxBackupsPerProject must be at least 1"
         /\ last.runs = <<>>
         /\ fs = last.before
    /\ ~config.retention.defined =>
         \A i \in 1..Len(last.runs) : last.runs[i].maxBackups = 10

\* backupCommand has called applyRetention with the configured limit of 1,
\* and it removed a backup.
C21_Witness ==
  /\ last.op = "backupCommand" /\ ~last.dryRun /\ last.exitCode = 0
  /\ config.retention = Defined(1)
  /\ \E i \in 1..Len(last.runs) :
       last.runs[i].maxBackups = 1 /\ last.runs[i].removed # <<>>

\* backupCommand has refused a configuration whose limit is below 1.
C21_Rejected ==
  /\ last.op = "backupCommand" /\ last.exitCode = 1
  /\ config.retention.defined /\ config.retention.value < 1

\* C22: when a filesystem operation fails inside createBackup, restoreBackup
\* or applyRetention, the call attempts nothing after it and ends with an
\* error: no failure is passed over for the call to go on.
C22_FailureEndsCall ==
  last.op \in {"createBackup", "restoreBackup", "applyRetention"} =>
    last.ignored = ""

\* The storage directory of the createBackup recorded in last holds, at the
\* place of an entry the copy writes, an entry of another kind.
KindConflict ==
  LET T == TreeAt(last.before, last.source)
      regular == KeptOfKind(T, last.patterns, "file")
                   \cup KeptOfKind(T, last.patterns, "dir")
  IN \E p \in regular : /\ last.path \o p \in DOMAIN last.before
                         /\ last.before[last.path \o p].kind # T[p].kind

\* The storage directory holds every file that the copy writes, with the
\* project's content, and every file it held before and the copy does not
\* write, as it was.
MergedIntoStorage ==
  LET T == TreeAt(last.before, last.source)
      written == KeptOfKind(T, last.patterns, "file")
      S == TreeAt(last.before, last.path)
  IN /\ last.err = ""
     /\ IsDirectoryIn(fs, last.path)
     /\ \A p \in written :
          last.path \o p \in DOMAIN fs /\ fs[last.path \o p] = T[p]
     /\ \A p \in DOMAIN S :
          (S[p].kind = "file" /\ p \notin written)
            => last.path \o p \in DOMAIN fs /\ fs[last.path \o p] = S[p]

\* C23: a createBackup that does not simulate, with an id whose storage
\* directory exists already, succeeds and writes into that directory:
\* afterwards it holds every non-excluded file of the project with its
\* present content, and every file it held before that is not in the project
\* is still there unchanged.
C23_MergesAnyStorage ==
  (last.op = "createBackup" /\ ~last.dryRun
     /\ IsDirectoryIn(last.before, last.path))
    => MergedIntoStorage

\* C23, for a storage directory that holds no entry of another kind where the
\* project has a file or a directory: the call succeeds and merges.
C23_MergesWithoutConflict ==
  (last.op = "createBackup" /\ ~last.dryRun
     /\ IsDirectoryIn(last.before, last.path) /\ ~KindConflict)
    => MergedIntoStorage

\* A backup into a directory that held a file the project has with other
\* content, and a file the project does not have.
C23_Witness ==
  /\ last.op = "createBackup" /\ ~last.dryRun /\ last.err = ""
  /\ IsDirectoryIn(last.before, last.path) /\ ~KindConflict
  /\ LET T == TreeAt(last.before, last.source)
         S == TreeAt(last.before, last.path)
     IN /\ \E p \in KeptOfKind(T, last.patterns, "file") :
             p \in DOMAIN S /\ S[p] # T[p]
        /\ \E p \in DOMAIN S : S[p].kind = "file" /\ p \notin DOMAIN T

\* C24: every source entry that is not excluded and is neither a regular
\* file nor a directory leaves a trace: copyDirectory records its path in
\* skipped (the one place where it also logs a notice of an entry passed
\* over), or it fails with an error.
C24_OtherEntriesAccounted ==
  last.op = "copyDirectory" =>
    LET T == TreeAt(last.before, last.source)
    IN \A p \in KeptOfKind(T, last.patterns, "other") :
         \/ last.err # ""
         \/ JoinWith(p, Slash) \in Range(last.stats.skipped)

\* The directories of f that g has no more, those below them left out.
RemovedBetween(f, g) ==
  {p \in DOMAIN f : /\ p \notin DOMAIN g
                    /\ Len(p) > 1 => SubSeq(p, 1, Len(p) - 1) \in DOMAIN g}

\* The paths that the runs of the backupCommand recorded in last reported as
\* removed, or as would be removed.
ReportedRemoved == UNION {Range(last.runs[i].removed) : i \in 1..Len(last.runs)}

\* C25: the backups that backupCommand with --dry-run reports as would be
\* removed are the backups that backupCommand without --dry-run, started in
\* the same state with the same options, removes.
C25_DryRunPreviewsRemovals ==
  (last.op = "backupCommand" /\ last.dryRun /\ last.exitCode = 0)
    => \A real \in {backupCommand(last.before, now, config,
                                   [last.options EXCEPT !.dryRun = FALSE])} :
         real.exitCode = 0 => ReportedRemoved = RemovedBetween(last.before, real.fs)

\* C26: after a backupCommand that does not simulate and exits with 0, the
\* backup directory of every project handled, with the id generated in the
\* run, exists and is among the backups that listBackups returns, whatever
\* the project's backup directory held before.
C26_NewBackupSurvives ==
  (last.op = "backupCommand" /\ ~last.dryRun /\ last.exitCode = 0)
    => \A i \in 1..Len(last.runs) :
         LET run == last.runs[i]
             target == getBackupTarget(config, last.options.target).target
             listed == listBackups(fs, target, run.project,
                                   [defined |-> TRUE, parts |-> Cwd]).backups
         IN /\ IsDirectoryIn(fs, run.path)
            /\ \E j \in 1..Len(listed) :
                 listed[j].timestamp = run.timestamp /\ listed[j].path = run.path

\* C27: applyRetention(target, projectName, ...) removes nothing but
\* immediate subdirectories of <basePath>/<projectName>/, with what is below
\* them, and writes nothing: every other entry of the filesystem, the
\* backups of other projects and the project directories among them, is as
\* it was.
C27_RetentionFrame ==
  last.op = "applyRetention" =>
    LET dir == ProjectBackupDirOfLast
        InBackup(p) == /\ Len(p) > Len(dir)
                       /\ IsPrefix(dir, p)
                       /\ IsDirectoryIn(last.before, SubSeq(p, 1, Len(dir) + 1))
    IN /\ DOMAIN fs \subseteq DOMAIN last.before
       /\ \A p \in DOMAIN fs : fs[p] = last.before[p]
       /\ \A p \in DOMAIN last.before : ~InBackup(p) => p \in DOMAIN fs

\* A retention that removed a backup of the project while another project
\* had a backup under the same target and a plain file stood beside the
\* project's backups.
C27_Witness ==
  /\ last.op = "applyRetention" /\ ~last.dryRun /\ last.err = ""
  /\ last.removed # <<>>
  /\ \A i \in 1..Len(last.removed) : last.removed[i] \notin DOMAIN fs
  /\ Append(ProjectBackupDirOfLast, StrayFile) \in DOMAIN fs
  /\ \E p \in DOMAIN fs : IsPrefix(Append(TargetBase, OtherProjectName), p)

\* The entries of f at or below d.
Under(f, d) == {p \in DOMAIN f : IsPrefix(d, p)}

\* C28: backupCommand with --all handles the configured projects one at a
\* time in the order of the configuration and stops at the first one that
\* fails, with exit code 1: the projects after it get no backup in the run,
\* no backup of the failing project is removed, and the backups made for the
\* projects before it stay in place.
C28_AllStopsAtFirstFailure ==
  (last.op = "backupCommand" /\ last.options.all /\ ~last.dryRun
     /\ loadConfig(last.before, config, last.options.configPath) = "")
    => LET k == Len(last.runs)
           n == Len(config.projects)
           target == getBackupTarget(config, last.options.target).target
           dirOf(i) == Append(ResolvePath(target.path, [defined |-> TRUE, parts |-> Cwd]),
                              config.projects[i].name)
       IN /\ k <= n
          /\ \A i \in 1..k : last.runs[i].project = config.projects[i].name
          /\ last.exitCode = IF k = n THEN 0 ELSE 1
          /\ \A i \in 1..k :
               \/ IsDirectoryIn(fs, last.runs[i].path)
               \/ last.runs[i].path \in Range(last.runs[i].removed)
          /\ \A j \in (k + 1)..n :
               \A p \in Under(last.before, dirOf(j)) :
                 p \in DOMAIN fs /\ fs[p] = last.before[p]
          /\ \A j \in (k + 2)..n :
               Under(fs, dirOf(j)) = Under(last.before, dirOf(j))

\* backupCommand --all has backed the first project up, failed at the second
\* one, which has more backups than the limit, and left the third one.
C28_Witness ==
  /\ last.op = "backupCommand" /\ last.options.all /\ ~last.dryRun
  /\ last.exitCode = 1
  /\ Len(config.projects) = 3 /\ Len(last.runs) = 1
  /\ IsDirectoryIn(fs, last.runs[1].path)
  /\ config.retention = Defined(1)
  /\ Cardinality({p \in Under(last.before, Append(TargetBase, OtherProjectName)) :
                    Len(p) = Len(TargetBase) + 2}) > 1

\* C29: every backup that backupCommand has written, with --target naming
\* any configured local target or without it, is found by restoreCommand for
\* the same project and id, and restored from the storage path it was
\* written to.
C29_BackupCanBeRestored ==
  (last.op = "backupCommand" /\ ~last.dryRun /\ last.exitCode = 0)
    => \A i \in 1..Len(last.runs) :
         LET run == last.runs[i]
         IN IsDirectoryIn(fs, run.path)
              => restoreCommand(fs, config,
                                [project |-> run.project, backup |-> run.timestamp,
                                 dest |-> DestNew, dryRun |-> TRUE,
                                 configPath |-> NoConfigPath]).path = run.path

\* restoreCommand has not found a backup that is in the second target.
C29_NotFound ==
  /\ last.op = "restoreCommand" /\ last.exitCode = 1
  /\ last.err = "Backup not found for project"
  /\ IsDirectoryIn(fs, SecondBase \o <<last.options.project.name, last.options.backup>>)

====
